---- MODULE Spec2Model ----
(***************************************************************************)
(* A model of the froge service lifecycle orchestrator (class FrogeServer  *)
(* and the plug() helper).                                                 *)
(*                                                                         *)
(* A registry ("server") is identified by a name of Srv.  The host "H" is  *)
(* the registry the user calls; "P", "Q" and "N" are registries bound as   *)
(* plugins with use().  A ServiceContainer is identified by the pair       *)
(* <<owner, key>>: containers are shared by reference between the map of   *)
(* the registry that created them and the maps they are merged into.       *)
(*                                                                         *)
(* JavaScript runs one synchronous segment at a time.  Every action of the *)
(* lifecycle part is one synchronous segment of the code; a promise that   *)
(* is settled by the outside world (a start or stop function that returned *)
(* a pending promise) is an entry of `pending`, settled by an action of    *)
(* its own that is enabled only while the running call chain is blocked.   *)
(***************************************************************************)
EXTENDS Integers, Sequences, FiniteSets, TLC

(***************************************************************************)
(* Bounds of the model.                                                    *)
(***************************************************************************)
\* top-level calls (start, only, stop) made by the user in one run
MaxOps == 4
\* start or stop function invocations that fail in one run
MaxFail == 1
\* calls (launch, shutdown, start, only) made in one run of the process
MaxLaunchOps == 3

Srv == {"H", "P", "Q", "N"}

(***************************************************************************)
(* Values.  `undefined` is Undef; a value produced by the n-th invocation  *)
(* of a start function is Val(n); the plug object a start function got     *)
(* from ctx.plug() is PlugVal(n).                                          *)
(***************************************************************************)
Undef == [t |-> "undef", n |-> 0]
Val(n) == [t |-> "val", n |-> n]
PlugVal(n) == [t |-> "plug", n |-> n]

(***************************************************************************)
(* The insertion-ordered Map<string, ServiceContainer> of a registry: a    *)
(* sequence of entries [key, owner], the container being <<owner, key>>.   *)
(***************************************************************************)
MapHas(m, key) == \E i \in 1..Len(m) : m[i].key = key

MapGet(m, key) == m[CHOOSE i \in 1..Len(m) : m[i].key = key]

\* A Map.delete that leaves the entry where it is.
MapDeleteNothing(m, key) == m

MapDelete(m, key) == SelectSeq(m, LAMBDA e : e.key # key)

MapSet(m, key, owner) ==
    IF MapHas(m, key)
    THEN [i \in 1..Len(m) |->
            IF m[i].key = key THEN [key |-> key, owner |-> owner] ELSE m[i]]
    ELSE Append(m, [key |-> key, owner |-> owner])

MapKeys(m) == {m[i].key : i \in 1..Len(m)}

(***************************************************************************)
(* A fresh registry: the field initialisers of class FrogeServer.          *)
(***************************************************************************)
\* gracefulShutdownTimeoutMs is optional: 0 stands for "not set".
defaultConfig ==
    [parallelStartGroups |-> TRUE, parallelStopGroups |-> TRUE,
     gracefulShutdownTimeoutMs |-> 0, forceExitAfterShutdown |-> FALSE]

NewServer ==
    [map |-> <<>>, groups |-> {}, config |-> defaultConfig,
     plugins |-> <<>>, currentLevel |-> -1]

\* The world a builder call works on: every registry and every container.
NewWorld == [reg |-> [s \in Srv |-> NewServer], cont |-> <<>>]

HasCont(w, id) == id \in DOMAIN w.cont

ContOf(w, m, key) == w.cont[<<MapGet(m, key).owner, key>>]

(***************************************************************************)
(* Start functions.  A start function is [kind, reads]:                    *)
(*   "sync"    a plain function returning a value                          *)
(*   "void"    a plain function returning nothing (undefined)              *)
(*   "promise" a plain function returning a promise                        *)
(*   "async"   an async function                                           *)
(*   "throws"  a plain function that throws                                *)
(*   "plug"    ctx => ctx.plug()                                           *)
(* and reads is the set of names it reads from ctx.services when invoked.  *)
(***************************************************************************)
InitFn(kind, reads) == [kind |-> kind, reads |-> reads]

(***************************************************************************)
(* up(): the dry invocation of an existing start function with             *)
(* plugContextMock.  The result is the reason of the rejection, or "plug". *)
(***************************************************************************)
DryInvokeAlwaysPlug(init) == "plug"

DryInvoke(init) ==
    IF init.kind = "async" THEN "is async"
    ELSE IF init.reads # {} \/ init.kind = "throws" THEN "raised an error"
    ELSE IF init.kind = "plug" THEN "plug"
    ELSE "didn't return a Froge plug"

NewContainer(level, group, init, maybePlug) ==
    [level |-> level, group |-> group, up |-> FALSE, init |-> init,
     destroy |-> "none", value |-> Undef, plug |-> maybePlug,
     started |-> Undef, inv |-> 0]

\* The loop of up() over the keys of `services`, from the i-th on.  A throw
\* leaves the loop with what the earlier keys have changed.
RECURSIVE UpKeys(_, _, _, _, _, _)
UpKeys(w, s, services, group, level, i) ==
    IF i > Len(services) THEN [w |-> w, err |-> "none", key |-> ""]
    ELSE
      LET key == services[i].key
          m == w.reg[s].map
          existing == MapHas(m, key)
          dry == IF existing THEN DryInvoke(ContOf(w, m, key).init) ELSE "plug"
          m1 == IF existing THEN MapDelete(m, key) ELSE m
          m2 == MapSet(m1, key, s)
          c == NewContainer(level, group, services[i].init, existing)
          w2 == [reg |-> [w.reg EXCEPT ![s].map = m2],
                 cont |-> (<<s, key>> :> c) @@ w.cont]
      IN IF dry # "plug"
         THEN [w |-> w, err |-> dry, key |-> key]
         ELSE UpKeys(w2, s, services, group, level, i + 1)

UpNoGroupCheck(w, s, services, group) ==
    LET level == w.reg[s].currentLevel + 1
        w1 == [w EXCEPT !.reg[s].currentLevel = level]
        r == UpKeys(w1, s, services, group, level, 1)
    IN IF r.err # "none" THEN r
       ELSE [r EXCEPT !.w.reg[s].groups =
                IF group # "" THEN @ \cup {group} ELSE @]

FrogeUpAnyGroup(w, s, services, group) ==
    UpNoGroupCheck(w, s, services, group)

FrogeUp(w, s, services, group) ==
    IF group # "" /\ group \in w.reg[s].groups
    THEN [w |-> w, err |-> "group exists", key |-> ""]
    ELSE UpNoGroupCheck(w, s, services, group)

(***************************************************************************)
(* down(): attaches stop functions, "sync" (returns nothing), "async"      *)
(* (returns a promise) or "throws" (always throws), to the containers the  *)
(* map holds under the keys.                                               *)
(***************************************************************************)
RECURSIVE DownKeys(_, _, _, _)
DownKeys(w, s, destroyers, i) ==
    IF i > Len(destroyers) THEN [w |-> w, err |-> "none", key |-> ""]
    ELSE
      LET key == destroyers[i].key
          m == w.reg[s].map
      IN IF ~MapHas(m, key)
         THEN [w |-> w, err |-> "unknown service", key |-> key]
         ELSE DownKeys(
                [w EXCEPT !.cont[<<MapGet(m, key).owner, key>>].destroy =
                    destroyers[i].destroy],
                s, destroyers, i + 1)

\* A down() that passes over the names the map does not hold.
RECURSIVE DownKeysSkipUnknown(_, _, _, _)
DownKeysSkipUnknown(w, s, destroyers, i) ==
    IF i > Len(destroyers) THEN [w |-> w, err |-> "none", key |-> ""]
    ELSE
      LET key == destroyers[i].key
          m == w.reg[s].map
      IN IF ~MapHas(m, key)
         THEN DownKeysSkipUnknown(w, s, destroyers, i + 1)
         ELSE DownKeysSkipUnknown(
                [w EXCEPT !.cont[<<MapGet(m, key).owner, key>>].destroy =
                    destroyers[i].destroy],
                s, destroyers, i + 1)

FrogeDownSkipUnknown(w, s, destroyers) ==
    DownKeysSkipUnknown(w, s, destroyers, 1)

FrogeDown(w, s, destroyers) == DownKeys(w, s, destroyers, 1)

(***************************************************************************)
(* use(): records a PluginContainer anchored at the current level.  The    *)
(* Map<number, PluginContainer[]> is the sequence of the containers in     *)
(* bind order, each with its anchor `after`; `server` says whether         *)
(* plugin.server is set.                                                   *)
(***************************************************************************)
FrogeUse(w, s, other, pushConfig) ==
    [w |-> [w EXCEPT !.reg[s].plugins =
                Append(@, [after |-> w.reg[s].currentLevel, other |-> other,
                           pushConfig |-> pushConfig, server |-> FALSE])],
     err |-> "none", key |-> ""]

FrogeConfigure(w, s, config) ==
    [w |-> [w EXCEPT !.reg[s].config =
                [f \in DOMAIN @ |->
                    IF f \in DOMAIN config THEN config[f] ELSE @[f]]],
     err |-> "none", key |-> ""]

\* plugins.get(level): the indices of the containers anchored at `level`.
PluginsAt(r, level) ==
    SelectSeq([i \in 1..Len(r.plugins) |-> i],
              LAMBDA i : r.plugins[i].after = level)


(***************************************************************************)
(* The process the registries run in.  exitCode is what process.exit was   *)
(* called with (NoExit while the process runs); timers holds, for every    *)
(* setTimeout callback that shutdown() has armed and that has not run, the *)
(* call that armed it; handlers holds the signals launch() has subscribed  *)
(* shutdown() to with process.once.                                        *)
(***************************************************************************)
NoExit == -1

NewProcess == [exitCode |-> NoExit, timers |-> {}, handlers |-> {}]

\* launch(): the grace period applied when none is configured.
FallbackTimeoutMs == 60000

(***************************************************************************)
(* The state.                                                              *)
(***************************************************************************)
VARIABLES
    reg,      \* reg[s]: the registry s (map, groups, config, plugins, currentLevel)
    cont,     \* cont[<<owner, key>>]: the ServiceContainer objects
    stack,    \* the chain of traversals in progress (async call frames)
    pending,  \* promises the outside world has still to settle
    log,      \* what has been invoked and completed, in order (history)
    held,     \* the plug references handed out so far (history)
    calls,    \* the user's calls so far and how each ended (history)
    nfail,    \* invocations that have failed so far
    proc      \* the process: exit status, armed timers, signal handlers

vars == <<reg, cont, stack, pending, log, held, calls, nfail, proc>>

nops == Len(calls)

Call(op, key, status, v) == [op |-> op, key |-> key, status |-> status, v |-> v]

W == [reg |-> reg, cont |-> cont]

\* A process.exit that returns and lets the program go on.
AliveAlways == TRUE

\* process.exit has not been called: the program still runs.
Alive == proc.exitCode = NoExit

LastCall == calls[Len(calls)]

NoLevel == -2

Reverse(q) == [i \in 1..Len(q) |-> q[Len(q) + 1 - i]]

Ev(e, by, owner, key, op) ==
    [e |-> e, by |-> by, owner |-> owner, key |-> key, op |-> op]

(***************************************************************************)
(* The `services` proxy of registry s (the read accessor).                 *)
(* A plug is named by the container that holds it and that container's     *)
(* level: the plug object up() got from the dry invocation.                *)
(***************************************************************************)
PlugId(owner, key, level) == [owner |-> owner, key |-> key, level |-> level]

ServicesGet(w, s, prop) ==
    IF ~MapHas(w.reg[s].map, prop)
    THEN [ok |-> FALSE, isPlug |-> FALSE, v |-> Undef, err |-> "unknown"]
    ELSE LET c == ContOf(w, w.reg[s].map, prop)
         IN IF c.plug
            THEN [ok |-> TRUE, isPlug |-> TRUE, v |-> Undef, err |-> ""]
            ELSE IF ~c.up
            THEN [ok |-> FALSE, isPlug |-> FALSE, v |-> Undef,
                  err |-> "not started"]
            ELSE [ok |-> TRUE, isPlug |-> FALSE, v |-> c.value, err |-> ""]

\* plug.ts: the plug called as a function, and its isReady property.  The
\* cell __startedService of the plug held by container <<owner, key>> is the
\* field `started` of that container.
PlugCell(w, pid) ==
    IF HasCont(w, <<pid.owner, pid.key>>)
          /\ w.cont[<<pid.owner, pid.key>>].plug
          /\ w.cont[<<pid.owner, pid.key>>].level = pid.level
    THEN w.cont[<<pid.owner, pid.key>>].started
    ELSE Undef

PlugIsReady(w, pid) == PlugCell(w, pid) # Undef

\* What calling the function a start function returned yields.
Result(v) == [t |-> "result", n |-> v.n]

\* plugResolver: `return service()` when the cell is set, else it throws.
PlugCall(w, pid) ==
    IF PlugCell(w, pid) # Undef
    THEN [ok |-> TRUE, v |-> Result(PlugCell(w, pid))]
    ELSE [ok |-> FALSE, v |-> Undef]

(***************************************************************************)
(* Map.groupBy(entries, info => info.level): the groups in the order in    *)
(* which their level first occurs, each in the order of the entries.       *)
(***************************************************************************)
LevelOfEntry(w, e) == w.cont[<<e.owner, e.key>>].level

RECURSIVE LevelOrder(_, _, _)
LevelOrder(w, es, acc) ==
    IF es = <<>> THEN acc
    ELSE LET l == LevelOfEntry(w, Head(es))
         IN LevelOrder(w, Tail(es),
                IF \E i \in 1..Len(acc) : acc[i] = l THEN acc
                ELSE Append(acc, l))

GroupByLevel(w, es) ==
    LET lv == LevelOrder(w, es, <<>>)
    IN [i \in 1..Len(lv) |->
          [level |-> lv[i],
           entries |-> SelectSeq(es, LAMBDA e : LevelOfEntry(w, e) = lv[i])]]

\* startInternal: the entries the traversal targets.
StartFilterNoBound(w, s, target, targetLevel, e) == TRUE

StartFilter(w, s, target, targetLevel, e) ==
    \/ e.key = target
    \/ targetLevel = NoLevel
    \/ LevelOfEntry(w, e) < targetLevel

StartGroups(w, s, target, targetLevel) ==
    GroupByLevel(w,
        SelectSeq(w.reg[s].map,
                  LAMBDA e : StartFilter(w, s, target, targetLevel, e)))

\* A stop() that takes every container of the map for its own.
StopGroupsAll(w, s) == GroupByLevel(w, Reverse(w.reg[s].map))

\* stop: only the registry's own containers, in reverse order.
StopGroups(w, s) ==
    GroupByLevel(w,
        Reverse(SelectSeq(w.reg[s].map, LAMBDA e : e.owner = s)))

(***************************************************************************)
(* A traversal frame: startInternal(target) or stop() of registry srv.     *)
(*   pc = "plugins"  in startPlugins/stopPlugins(level), at plugin pl[pi]  *)
(*   pc = "child"    awaiting plugin.server.start()/stop() (frame above)   *)
(*   pc = "group"    about to call startService/stopService on entry si    *)
(*   pc = "await"    awaiting promises of the group that are pending       *)
(*   pc = "reject"   an awaited promise has rejected: the call throws      *)
(*   pc = "done"     the traversal has returned                            *)
(***************************************************************************)
Frame(s, op, opid, target, targetLevel, groups) ==
    [srv |-> s, op |-> op, opid |-> opid, target |-> target,
     targetLevel |-> targetLevel, groups |-> groups, gi |-> 0,
     pc |-> "plugins", level |-> -1, pl |-> <<>>, pi |-> 1, si |-> 1,
     failed |-> FALSE, final |-> FALSE, micro |-> <<>>]

Parallel(w, fr) ==
    IF fr.op = "start" THEN w.reg[fr.srv].config.parallelStartGroups
    ELSE w.reg[fr.srv].config.parallelStopGroups

\* startPlugins iterates plugins.get(level); stopPlugins its reverse.
StopPluginOrderForward(r, level) == PluginsAt(r, level)

StopPluginOrder(r, level) == Reverse(PluginsAt(r, level))

EnterPlugins(fr, w, level) ==
    [fr EXCEPT !.pc = "plugins", !.level = level, !.pi = 1,
               !.pl = IF fr.op = "start"
                      THEN PluginsAt(w.reg[fr.srv], level)
                      ELSE StopPluginOrder(w.reg[fr.srv], level)]

\* What follows startPlugins(level) / stopPlugins(level).
AfterPlugins(fr) ==
    IF fr.op = "start"
    THEN IF fr.gi + 1 > Len(fr.groups)
         THEN [fr EXCEPT !.pc = "done"]
         ELSE [fr EXCEPT !.gi = fr.gi + 1, !.pc = "group", !.si = 1]
    ELSE IF fr.final
         THEN [fr EXCEPT !.pc = "done"]
         ELSE [fr EXCEPT !.pc = "group", !.si = 1]

\* startInternal: plugins anchored at a level follow the level's services,
\* except at the target's level.
PluginsFollowAlways(fr) == TRUE

PluginsFollow(fr) == fr.groups[fr.gi].level # fr.targetLevel

\* What follows the services of group gi.
AfterGroup(fr, w) ==
    IF fr.op = "start"
    THEN IF PluginsFollow(fr)
         THEN EnterPlugins(fr, w, fr.groups[fr.gi].level)
         ELSE AfterPlugins(fr)
    ELSE IF fr.gi + 1 > Len(fr.groups)
         THEN EnterPlugins([fr EXCEPT !.final = TRUE], w, -1)
         ELSE EnterPlugins([fr EXCEPT !.gi = fr.gi + 1], w,
                           fr.groups[fr.gi + 1].level)

\* A traversal that does not wait for what it has invoked.
OutstandingNever(fr, pend) == FALSE

\* await Promise.all(...): something this traversal invoked has not settled.
Outstanding(fr, pend) ==
    \E e \in pend :
        /\ e.op = fr.opid /\ e.by = fr.srv
        /\ e.kind = (IF fr.op = "start" THEN "init" ELSE "destroy")

\* Runs the control flow of a frame on to the next point where something
\* is invoked, awaited or returned.
RECURSIVE Norm(_, _, _)
Norm(fr, w, pend) ==
    IF fr.pc = "plugins" /\ fr.pi > Len(fr.pl)
    THEN Norm(AfterPlugins(fr), w, pend)
    ELSE IF fr.pc = "group" /\ fr.si > Len(fr.groups[fr.gi].entries)
    THEN IF fr.failed THEN [fr EXCEPT !.pc = "reject"]
         ELSE IF Outstanding(fr, pend) THEN [fr EXCEPT !.pc = "await"]
         ELSE Norm(AfterGroup(fr, w), w, pend)
    ELSE fr

BeginStart(w, s, opid, target, pend) ==
    LET targetLevel == IF target = "" THEN NoLevel
                       ELSE ContOf(w, w.reg[s].map, target).level
        fr == Frame(s, "start", opid, target, targetLevel,
                    StartGroups(w, s, target, targetLevel))
    IN Norm(EnterPlugins(fr, w, -1), w, pend)

BeginStop(w, s, opid, pend) ==
    LET g == StopGroups(w, s)
        fr == Frame(s, "stop", opid, "", NoLevel, g)
    IN IF g = <<>>
       THEN Norm(EnterPlugins([fr EXCEPT !.final = TRUE], w, -1), w, pend)
       ELSE Norm(EnterPlugins([fr EXCEPT !.gi = 1], w, g[1].level), w, pend)


(***************************************************************************)
(* Programs: the builder calls that construct the registries before the    *)
(* first start.  A program gives, per registry, the sequence of its calls. *)
(***************************************************************************)
Svc(key, kind, reads) == [key |-> key, init |-> InitFn(kind, reads)]
Dst(key, kind) == [key |-> key, destroy |-> kind]
CallUp(services, group) == [op |-> "up", services |-> services, group |-> group]
CallDown(destroyers) == [op |-> "down", destroyers |-> destroyers]
CallUse(other, pushConfig) == [op |-> "use", other |-> other, pushConfig |-> pushConfig]
CallConfigure(config) == [op |-> "configure", config |-> config]

ApplyCall(w, s, call) ==
    CASE call.op = "up" -> FrogeUp(w, s, call.services, call.group)
      [] call.op = "down" -> FrogeDown(w, s, call.destroyers)
      [] call.op = "use" -> FrogeUse(w, s, call.other, call.pushConfig)
      [] call.op = "configure" -> FrogeConfigure(w, s, call.config)

RECURSIVE Build(_, _, _, _)
Build(w, s, script, i) ==
    IF i > Len(script) THEN [w |-> w, err |-> "none", key |-> ""]
    ELSE LET r == ApplyCall(w, s, script[i])
         IN IF r.err # "none" THEN r ELSE Build(r.w, s, script, i + 1)

BuildProgram(prog) ==
    LET wn == Build(NewWorld, "N", prog["N"], 1)
        wq == Build(wn.w, "Q", prog["Q"], 1)
        wp == Build(wq.w, "P", prog["P"], 1)
        wh == Build(wp.w, "H", prog["H"], 1)
    IN [w |-> wh.w,
        ok |-> wn.err = "none" /\ wq.err = "none" /\ wp.err = "none"
                  /\ wh.err = "none"]

\* tests/froge-plugins.test.ts, "services started and stopped in correct
\* order": two levels with a plugin of two levels bound between them.
ProgLevels ==
    [H |-> << CallUp(<<Svc("a", "promise", {}), Svc("b", "sync", {})>>, ""),
              CallUse("P", TRUE),
              CallUp(<<Svc("c", "sync", {"a", "p"})>>, ""),
              CallDown(<<Dst("a", "async"), Dst("b", "sync"),
                         Dst("c", "sync")>>) >>,
     P |-> << CallUp(<<Svc("p", "promise", {})>>, ""),
              CallUp(<<Svc("r", "sync", {"p"})>>, ""),
              CallDown(<<Dst("p", "sync"), Dst("r", "sync")>>) >>,
     Q |-> <<>>,
     N |-> <<>>]

\* "only requested services started": two plugins at one anchor, a plugin
\* after the second level, and a third level.
ProgOnly ==
    [H |-> << CallUp(<<Svc("a", "sync", {})>>, ""),
              CallUse("P", TRUE),
              CallUse("Q", FALSE),
              CallUp(<<Svc("d", "promise", {}),
                       Svc("c", "sync", {"q"})>>, ""),
              CallUse("N", TRUE),
              CallUp(<<Svc("e", "sync", {"n"})>>, ""),
              CallDown(<<Dst("a", "sync"), Dst("c", "sync"),
                         Dst("d", "sync"), Dst("e", "sync")>>) >>,
     P |-> << CallUp(<<Svc("p", "sync", {})>>, ""),
              CallDown(<<Dst("p", "sync")>>) >>,
     Q |-> << CallUp(<<Svc("q", "sync", {})>>, ""),
              CallDown(<<Dst("q", "async")>>) >>,
     N |-> << CallUp(<<Svc("n", "sync", {})>>, ""),
              CallDown(<<Dst("n", "sync")>>) >>]

\* tests "ctx.plug(): plug overriden after referenced": a plug, a consumer
\* of it registered before the override, the override, a consumer after it.
ProgPlug ==
    [H |-> << CallUp(<<Svc("a", "promise", {}), Svc("x", "plug", {})>>, ""),
              CallUp(<<Svc("c", "sync", {"x"})>>, ""),
              CallUp(<<Svc("x", "sync", {})>>, ""),
              CallUp(<<Svc("d", "sync", {"x"})>>, ""),
              CallDown(<<Dst("a", "sync"), Dst("x", "sync"),
                         Dst("c", "sync")>>) >>,
     P |-> <<>>,
     Q |-> <<>>,
     N |-> <<>>]

\* A plugin that itself binds a plugin.
ProgNested ==
    [H |-> << CallUp(<<Svc("a", "sync", {})>>, ""),
              CallUse("P", TRUE),
              CallUp(<<Svc("c", "sync", {"n"})>>, ""),
              CallDown(<<Dst("a", "sync"), Dst("c", "sync")>>) >>,
     P |-> << CallUp(<<Svc("p", "sync", {})>>, ""),
              CallUse("N", TRUE),
              CallDown(<<Dst("p", "sync")>>) >>,
     Q |-> <<>>,
     N |-> << CallUp(<<Svc("n", "sync", {})>>, ""),
              CallDown(<<Dst("n", "sync")>>) >>]

\* A plugin bound after a level whose only definition is a plug that a
\* later level overrides.
ProgEmpty ==
    [H |-> << CallUp(<<Svc("x", "plug", {})>>, ""),
              CallUse("Q", TRUE),
              CallUp(<<Svc("c", "sync", {})>>, ""),
              CallUp(<<Svc("x", "sync", {})>>, ""),
              CallDown(<<Dst("c", "sync"), Dst("x", "sync")>>) >>,
     P |-> <<>>,
     Q |-> << CallUp(<<Svc("q", "sync", {})>>, ""),
              CallDown(<<Dst("q", "sync")>>) >>,
     N |-> <<>>]

Programs == {ProgLevels, ProgOnly, ProgPlug, ProgNested, ProgEmpty}

Init ==
    /\ \E prog \in Programs, ps \in BOOLEAN, pt \in BOOLEAN :
          LET b == BuildProgram(prog)
              w == FrogeConfigure(b.w, "H",
                      [parallelStartGroups |-> ps,
                       parallelStopGroups |-> pt]).w
          IN /\ b.ok
             /\ reg = w.reg
             /\ cont = w.cont
    /\ stack = <<>>
    /\ pending = {}
    /\ log = <<>>
    /\ held = {}
    /\ calls = <<>>
    /\ nfail = 0
    /\ proc = NewProcess

Top == stack[Len(stack)]

Idle == stack = <<>>

SetTop(fr) == [stack EXCEPT ![Len(stack)] = fr]

\* The frames of call opid (its traversal and, above it, those of the bound
\* registries it has entered), and the frames of the other calls in
\* progress.  The chain that runs is on top; the chains beneath it wait for
\* a promise.
ChainOf(opid) == SelectSeq(stack, LAMBDA fr : fr.opid = opid)

Below(opid) == SelectSeq(stack, LAMBDA fr : fr.opid # opid)

EndedCall(opid, status, v) ==
    [calls EXCEPT ![opid].status = status, ![opid].v = v]

(***************************************************************************)
(* User calls on the host: start(), only(key), stop().                     *)
(***************************************************************************)
CallStart ==
    /\ Alive /\ Idle /\ nops < MaxOps
    /\ stack' = <<BeginStart(W, "H", nops + 1, "", pending)>>
    /\ calls' = Append(calls, Call("start", "", "running", Undef))
    /\ UNCHANGED <<reg, cont, pending, log, held, nfail, proc>>

\* only(): the value `this.services[key]` it returns (or throws).
OnlyReturn(w, key) ==
    LET r == ServicesGet(w, "H", key)
    IN Call("only", key, IF r.ok THEN "resolved" ELSE "rejected", r.v)

CallOnly(key) ==
    /\ Alive /\ Idle /\ nops < MaxOps
    /\ IF ~MapHas(reg["H"].map, key)
       THEN /\ calls' = Append(calls, Call("only", key, "rejected", Undef))
            /\ stack' = stack
            /\ log' = log
       ELSE IF ContOf(W, reg["H"].map, key).up
       THEN /\ calls' = Append(calls, OnlyReturn(W, key))
            /\ stack' = stack
            /\ log' = Append(log, Ev("return", "H", "", "", nops + 1))
       ELSE /\ calls' = Append(calls, Call("only", key, "running", Undef))
            /\ stack' = <<BeginStart(W, "H", nops + 1, key, pending)>>
            /\ log' = log
    /\ UNCHANGED <<reg, cont, pending, held, nfail, proc>>

CallStop ==
    /\ Alive /\ Idle /\ nops < MaxOps
    /\ stack' = <<BeginStop(W, "H", nops + 1, pending)>>
    /\ calls' = Append(calls, Call("stop", "", "running", Undef))
    /\ UNCHANGED <<reg, cont, pending, log, held, nfail, proc>>

(***************************************************************************)
(* launch(): applies the fallback grace period when none is configured and *)
(* awaits start().  shutdown(reason): arms the deadline timer and awaits   *)
(* stop(); it is called by the user, or by the handler launch() subscribed *)
(* to a signal (process.once: the handler is gone once it has run).  A    *)
(* call comes while no other call of the user is in progress; shutdown()   *)
(* comes also while a stop() in progress waits for a stop function.        *)
(***************************************************************************)
CallLaunch ==
    /\ Alive /\ Idle /\ nops < MaxOps
    /\ LET unset == reg["H"].config.gracefulShutdownTimeoutMs = 0
           reg2 == IF unset
                   THEN [reg EXCEPT !["H"].config.gracefulShutdownTimeoutMs =
                            FallbackTimeoutMs]
                   ELSE reg
           w2 == [reg |-> reg2, cont |-> cont]
       IN /\ reg' = reg2
          /\ log' = IF unset
                    THEN Append(log, Ev("fallback", "H", "", "", nops + 1))
                    ELSE log
          /\ stack' = <<BeginStart(w2, "H", nops + 1, "", pending)>>
    /\ calls' = Append(calls, Call("launch", "", "running", Undef))
    /\ UNCHANGED <<cont, pending, held, nfail, proc>>

Signals == {"SIGINT", "SIGTERM"}

\* shutdown(): the deadline timer, armed when a grace period is configured.
Armed(p, w, opid) ==
    LET ms == w.reg["H"].config.gracefulShutdownTimeoutMs
    IN IF ms # 0
       THEN [p EXCEPT !.timers = @ \cup {[op |-> opid, ms |-> ms]}]
       ELSE p

ArmEvents(w, opid) ==
    IF w.reg["H"].config.gracefulShutdownTimeoutMs # 0
    THEN <<Ev("arm", "H", "", "", opid)>>
    ELSE <<>>

StopInProgress == ~Idle /\ Top.op = "stop" /\ Top.pc = "await"

CallShutdown(reason) ==
    /\ Alive /\ (Idle \/ StopInProgress) /\ nops < MaxOps
    /\ reason \in Signals => reason \in proc.handlers
    /\ proc' = [Armed(proc, W, nops + 1) EXCEPT !.handlers = @ \ {reason}]
    /\ log' = log \o ArmEvents(W, nops + 1)
    /\ stack' = Append(stack, BeginStop(W, "H", nops + 1, pending))
    /\ calls' = Append(calls, Call("shutdown", reason, "running", Undef))
    /\ UNCHANGED <<reg, cont, pending, held, nfail>>


(***************************************************************************)
(* startPlugins(level), one plugin of the loop: skipped when plugin.server *)
(* is set; otherwise the factory result is stored, the configuration       *)
(* pushed, the keys checked against the map and plugin.server.start()      *)
(* called.                                                                 *)
(***************************************************************************)
HasConflictNever(r, other) == FALSE

HasConflict(r, other) == MapKeys(other.map) \cap MapKeys(r.map) # {}

\* The key the error names: the first key of the plugin's map the host has.
ConflictKey(r, other) ==
    other.map[CHOOSE i \in 1..Len(other.map) :
                /\ MapHas(r.map, other.map[i].key)
                /\ \A j \in 1..(i - 1) : ~MapHas(r.map, other.map[j].key)].key

\* A startPlugins that takes no binding for materialised.
MaterialisedNever(plugin) == FALSE

\* startPlugins: `if (plugin.server) continue`.
Materialised(plugin) == plugin.server

StartPluginStep ==
    /\ Alive /\ ~Idle /\ Top.op = "start" /\ Top.pc = "plugins"
    /\ LET fr == Top
           idx == fr.pl[fr.pi]
           plugin == reg[fr.srv].plugins[idx]
           other == plugin.other
           reg1 == [reg EXCEPT ![fr.srv].plugins[idx].server = TRUE]
           reg2 == IF plugin.pushConfig
                   THEN [reg1 EXCEPT ![other].config = reg[fr.srv].config]
                   ELSE reg1
           w2 == [reg |-> reg2, cont |-> cont]
       IN IF Materialised(plugin)
          THEN /\ stack' = SetTop(Norm([fr EXCEPT !.pi = fr.pi + 1], W, pending))
               /\ UNCHANGED <<reg, log>>
          ELSE /\ reg' = reg2
               /\ IF HasConflict(reg[fr.srv], reg[other])
                  THEN /\ stack' = SetTop([fr EXCEPT !.pc = "reject"])
                       /\ log' = Append(log,
                              Ev("conflict", fr.srv, other,
                                 ConflictKey(reg[fr.srv], reg[other]),
                                 fr.opid))
                  ELSE /\ stack' = Append(SetTop([fr EXCEPT !.pc = "child"]),
                              BeginStart(w2, other, fr.opid, "", pending))
                       /\ log' = Append(log,
                              Ev("materialize", fr.srv, other, "", fr.opid))
    /\ UNCHANGED <<cont, pending, held, calls, nfail, proc>>

(***************************************************************************)
(* stopPlugins(level), one plugin of the loop: skipped when plugin.server  *)
(* is not set; otherwise plugin.server.stop() is called.                   *)
(***************************************************************************)
StopPluginStep ==
    /\ Alive /\ ~Idle /\ Top.op = "stop" /\ Top.pc = "plugins"
    /\ LET fr == Top
           idx == fr.pl[fr.pi]
           plugin == reg[fr.srv].plugins[idx]
       IN IF ~plugin.server
          THEN /\ stack' = SetTop(Norm([fr EXCEPT !.pi = fr.pi + 1], W, pending))
               /\ log' = log
          ELSE /\ stack' = Append(SetTop([fr EXCEPT !.pc = "child"]),
                              BeginStop(W, plugin.other, fr.opid, pending))
               /\ log' = Append(log,
                              Ev("teardown", fr.srv, plugin.other, "", fr.opid))
    /\ UNCHANGED <<reg, cont, pending, held, calls, nfail, proc>>

(***************************************************************************)
(* A traversal returns.  The user's call resolves; a plugin's start() is   *)
(* followed by the merge of its map into the caller's, a plugin's stop()   *)
(* by the removal of its keys and the reset of plugin.server.              *)
(***************************************************************************)
RECURSIVE MergeMap(_, _, _)
MergeMap(m, from, i) ==
    IF i > Len(from) THEN m
    ELSE MergeMap(MapSet(m, from[i].key, from[i].owner), from, i + 1)

UnmergeMap(m, from) == SelectSeq(m, LAMBDA e : e.key \notin MapKeys(from))

\* A shutdown() that lets what stop() throws through to its caller.
InShutdownNever(call) == FALSE

\* The stop() in progress was called by shutdown(): by the user's call, or
\* by the cleanup of launch().  What it throws is caught there.
InShutdown(call) == call.op \in {"launch", "shutdown"}

\* launch(): start() has returned; shutdown() is subscribed to the signals.
Subscribed(p) == [p EXCEPT !.handlers = @ \cup {"SIGINT", "SIGTERM"}]

\* A shutdown() that never exits after stop() has returned.
ForceExitNever(w) == FALSE

\* shutdown(): stop() has returned; process.exit(0) when the registry is
\* configured to exit after shutdown.
ForceExit(w) == w.reg["H"].config.forceExitAfterShutdown

ReturnStep ==
    /\ Alive /\ ~Idle /\ Top.pc = "done"
    /\ IF Len(ChainOf(Top.opid)) = 1
       THEN /\ stack' = Below(Top.opid)
            /\ reg' = reg
            /\ IF calls[Top.opid].op = "launch" /\ Top.op = "start"
               THEN /\ calls' = EndedCall(Top.opid, "resolved", Undef)
                    /\ proc' = Subscribed(proc)
                    /\ log' = Append(log,
                                 Ev("return", Top.srv, "", "", Top.opid))
               ELSE IF InShutdown(calls[Top.opid]) /\ ForceExit(W)
               THEN /\ calls' = calls
                    /\ proc' = [proc EXCEPT !.exitCode = 0]
                    /\ log' = log
               ELSE /\ calls' = IF Top.target # ""
                                THEN [calls EXCEPT ![Top.opid] =
                                        OnlyReturn(W, Top.target)]
                                ELSE EndedCall(Top.opid, "resolved", Undef)
                    /\ proc' = proc
                    /\ log' = Append(log,
                                 Ev("return", Top.srv, "", "", Top.opid))
       ELSE LET child == Top
                parent == stack[Len(stack) - 1]
                idx == parent.pl[parent.pi]
                reg2 == IF parent.op = "start"
                        THEN [reg EXCEPT ![parent.srv].map =
                                MergeMap(@, reg[child.srv].map, 1)]
                        ELSE [reg EXCEPT ![parent.srv].map =
                                UnmergeMap(@, reg[child.srv].map),
                              ![parent.srv].plugins[idx].server = FALSE]
                w2 == [reg |-> reg2, cont |-> cont]
                parent2 == Norm([parent EXCEPT !.pc = "plugins",
                                               !.pi = parent.pi + 1],
                                w2, pending)
            IN /\ reg' = reg2
               /\ stack' = Append(SubSeq(stack, 1, Len(stack) - 2), parent2)
               /\ log' = Append(log,
                            Ev(IF parent.op = "start" THEN "merge" ELSE "unmerge",
                               parent.srv, child.srv, "", parent.opid))
               /\ calls' = calls
               /\ proc' = proc
    /\ UNCHANGED <<cont, pending, held, nfail>>

\* A rejection is caught nowhere in start(), only(), stop(), startPlugins
\* and stopPlugins: it ends every traversal of the chain and reaches the
\* user's call.  launch() catches what start() throws, logs it and awaits
\* shutdown(); shutdown() catches what stop() throws, logs it and calls
\* process.exit(1).
RejectStep ==
    /\ Alive /\ ~Idle /\ Top.pc = "reject"
    /\ IF calls[Top.opid].op = "launch" /\ ChainOf(Top.opid)[1].op = "start"
       THEN /\ log' = Append(log, Ev("failedstart", "H", "", "", Top.opid))
                         \o ArmEvents(W, Top.opid)
            /\ proc' = Armed(proc, W, Top.opid)
            /\ stack' = Append(Below(Top.opid),
                               BeginStop(W, "H", Top.opid, pending))
            /\ calls' = calls
       ELSE IF InShutdown(calls[Top.opid])
       THEN /\ log' = Append(log, Ev("incomplete", "H", "", "", Top.opid))
            /\ proc' = [proc EXCEPT !.exitCode = 1]
            /\ stack' = Below(Top.opid)
            /\ calls' = calls
       ELSE /\ stack' = Below(Top.opid)
            /\ calls' = EndedCall(Top.opid, "rejected", Undef)
            /\ UNCHANGED <<log, proc>>
    /\ UNCHANGED <<reg, cont, pending, held, nfail>>


(***************************************************************************)
(* startService(key, container).  What the invocation of the start         *)
(* function does is chosen here: "already" (container.up, nothing is       *)
(* invoked), "ok" (it returns a value), "throw" (it throws: a name it      *)
(* reads is not readable, or it always throws), "fail" (it throws, one of  *)
(* the MaxFail failures of the run), "pend" (it returns a promise).        *)
(***************************************************************************)
CanFail == nfail < MaxFail

InitOutcomes(w, s, c) ==
    IF c.up THEN {"already"}
    ELSE IF c.init.kind = "throws"
            \/ \E k \in c.init.reads : ~ServicesGet(w, s, k).ok
    THEN {"throw"}
    ELSE IF c.init.kind \in {"promise", "async"} THEN {"pend"}
    ELSE IF c.init.kind = "plug" THEN {"ok"}
    ELSE {"ok"} \cup (IF CanFail THEN {"fail"} ELSE {})

InitValue(c) ==
    CASE c.init.kind = "void" -> Undef
      [] c.init.kind = "plug" -> PlugVal(c.inv + 1)
      [] OTHER -> Val(c.inv + 1)

\* A startService that does not resolve the plug.
StartedNoCell(c, v) == [c EXCEPT !.value = v, !.up = TRUE]

\* The assignments of startService once the value is there.
Started(c, v) ==
    [c EXCEPT !.value = v,
              !.started = IF c.plug THEN v ELSE c.started,
              !.up = TRUE]

\* The assignments of stopService once the stop function has returned.
Stopped(c) ==
    [c EXCEPT !.value = Undef,
              !.started = IF c.plug THEN Undef ELSE c.started,
              !.up = FALSE]

\* The plug references a start function gets from the names it reads.
PlugsRead(w, s, key, c) ==
    { [holder |-> key,
       plug |-> PlugId(MapGet(w.reg[s].map, k).owner, k,
                       ContOf(w, w.reg[s].map, k).level)] :
        k \in {k2 \in c.init.reads : ServicesGet(w, s, k2).isPlug} }

\* The frame after entry si of the group has been called with outcome out.
AfterCallSequentialAsParallel(fr, w, pend, out) ==
    Norm([fr EXCEPT !.si = fr.si + 1,
                    !.failed = fr.failed \/ out \in {"throw", "fail"}],
         w, pend)

\* A traversal that awaits each call of a group before the next.
AfterCallParallelAsSequential(fr, w, pend, out) ==
    IF out \in {"throw", "fail"} THEN [fr EXCEPT !.pc = "reject"]
    ELSE IF out = "pend" THEN [fr EXCEPT !.pc = "await"]
    ELSE Norm([fr EXCEPT !.si = fr.si + 1], w, pend)

\* Promise.all(group.map(...)) calls every entry and then awaits; the loop
\* `for ... await` awaits each call before the next.
AfterCall(fr, w, pend, out) ==
    IF Parallel(w, fr)
    THEN Norm([fr EXCEPT !.si = fr.si + 1,
                         !.failed = fr.failed \/ out \in {"throw", "fail"}],
              w, pend)
    ELSE IF out \in {"throw", "fail"} THEN [fr EXCEPT !.pc = "reject"]
    ELSE IF out = "pend" THEN [fr EXCEPT !.pc = "await"]
    ELSE Norm([fr EXCEPT !.si = fr.si + 1], w, pend)

\* The frame after an awaited promise of its group has resolved.
Resume(fr, w, pend) ==
    IF Parallel(w, fr)
    THEN IF Outstanding(fr, pend) THEN fr
         ELSE Norm(AfterGroup(fr, w), w, pend)
    ELSE Norm([fr EXCEPT !.pc = "group", !.si = fr.si + 1], w, pend)

\* stopService awaits what the stop function returned even when that is a
\* plain value: under Promise.all the continuations of a group run once
\* every sibling has been called, in call order.
Continue(cn, micro) ==
    [i \in DOMAIN cn |->
        IF \E k \in 1..Len(micro) : micro[k] = i
        THEN Stopped(cn[i]) ELSE cn[i]]

ContinueEvents(micro, fr) ==
    [k \in 1..Len(micro) |->
        Ev("destroyed", fr.srv, micro[k][1], micro[k][2], fr.opid)]

StartServiceStep ==
    /\ Alive /\ ~Idle /\ Top.op = "start" /\ Top.pc = "group"
    /\ LET fr == Top
           e == fr.groups[fr.gi].entries[fr.si]
           id == <<e.owner, e.key>>
           c == cont[id]
       IN \E out \in InitOutcomes(W, fr.srv, c) :
            LET c1 == [c EXCEPT !.inv = IF out = "already" THEN @ ELSE @ + 1]
                c2 == IF out = "ok" THEN Started(c1, InitValue(c)) ELSE c1
                pend2 == IF out = "pend"
                         THEN pending \cup
                                {[kind |-> "init", owner |-> e.owner,
                                  key |-> e.key, op |-> fr.opid,
                                  by |-> fr.srv, n |-> c.inv + 1]}
                         ELSE pending
                cont2 == [cont EXCEPT ![id] = c2]
                w2 == [reg |-> reg, cont |-> cont2]
                ev == Ev("init", fr.srv, e.owner, e.key, fr.opid)
            IN /\ cont' = cont2
               /\ pending' = pend2
               /\ log' = CASE out = "already" ->
                                Append(log, [ev EXCEPT !.e = "already"])
                           [] out = "ok" ->
                                log \o <<ev, [ev EXCEPT !.e = "ready"]>>
                           [] out = "pend" -> Append(log, ev)
                           [] OTHER ->
                                log \o <<ev, [ev EXCEPT !.e = "initfail"]>>
               /\ held' = IF out \in {"ok", "pend", "fail"}
                          THEN held \cup PlugsRead(W, fr.srv, e.key, c)
                          ELSE held
               /\ nfail' = IF out = "fail" THEN nfail + 1 ELSE nfail
               /\ stack' = SetTop(AfterCall(fr, w2, pend2, out))
    /\ UNCHANGED <<reg, calls, proc>>

(***************************************************************************)
(* stopService(key, container): "skip" (no stop function, or no value),    *)
(* "ok" (the stop function returns), "throw" (it always throws), "fail"    *)
(* (it throws, one of the MaxFail failures of the run), "pend" (it returns *)
(* a promise).                                                             *)
(***************************************************************************)
DestroyOutcomes(c) ==
    IF c.destroy = "none" \/ c.value = Undef THEN {"skip"}
    ELSE IF c.destroy = "throws" THEN {"throw"}
    ELSE IF c.destroy = "async" THEN {"pend"}
    ELSE {"ok"} \cup (IF CanFail THEN {"fail"} ELSE {})

StopServiceStep ==
    /\ Alive /\ ~Idle /\ Top.op = "stop" /\ Top.pc = "group"
    /\ LET fr == Top
           e == fr.groups[fr.gi].entries[fr.si]
           id == <<e.owner, e.key>>
           c == cont[id]
           par == Parallel(W, fr)
           last == fr.si = Len(fr.groups[fr.gi].entries)
       IN \E out \in DestroyOutcomes(c) :
            LET micro2 == IF out = "ok" /\ par
                          THEN Append(fr.micro, id)
                          ELSE fr.micro
                flush == IF last THEN micro2 ELSE <<>>
                pend2 == IF out = "pend"
                         THEN pending \cup
                                {[kind |-> "destroy", owner |-> e.owner,
                                  key |-> e.key, op |-> fr.opid,
                                  by |-> fr.srv, n |-> c.inv]}
                         ELSE pending
                cont2 == Continue(IF out = "ok" /\ ~par
                                  THEN [cont EXCEPT ![id] = Stopped(c)]
                                  ELSE cont,
                                  flush)
                w2 == [reg |-> reg, cont |-> cont2]
                ev == Ev("destroy", fr.srv, e.owner, e.key, fr.opid)
                fr2 == [fr EXCEPT !.micro = IF last THEN <<>> ELSE micro2]
            IN /\ cont' = cont2
               /\ pending' = pend2
               /\ log' = (CASE out = "skip" -> log
                            [] out = "ok" /\ ~par ->
                                 log \o <<ev, [ev EXCEPT !.e = "destroyed"]>>
                            [] out \in {"ok", "pend"} -> Append(log, ev)
                            [] OTHER ->
                                 log \o <<ev,
                                          [ev EXCEPT !.e = "destroyfail"]>>)
                          \o ContinueEvents(flush, fr)
               /\ nfail' = IF out = "fail" THEN nfail + 1 ELSE nfail
               /\ stack' = SetTop(AfterCall(fr2, w2, pend2, out))
    /\ UNCHANGED <<reg, held, calls, proc>>

(***************************************************************************)
(* The outside world settles a pending promise.  The continuation of       *)
(* startService / stopService runs whether or not the traversal that       *)
(* invoked it still waits for it.                                          *)
(***************************************************************************)
Blocked == IF Idle THEN TRUE ELSE Top.pc = "await"

\* A traversal in progress waits for the promise: the one on top of the
\* chain of the call that invoked it.
Awaited(e) ==
    \E i \in 1..Len(stack) :
        /\ stack[i].pc = "await"
        /\ stack[i].opid = e.op /\ stack[i].srv = e.by
        /\ e.kind = (IF stack[i].op = "start" THEN "init" ELSE "destroy")

\* The chain of call opid resumes: it is the one that runs now.
Raise(opid, fr) ==
    LET chain == ChainOf(opid)
    IN Below(opid) \o [chain EXCEPT ![Len(chain)] = fr]

Waiting(opid) == ChainOf(opid)[Len(ChainOf(opid))]

Settle(e, ok) ==
    /\ Alive
    /\ e \in pending
    /\ Blocked
    /\ ok \/ CanFail
    /\ LET id == <<e.owner, e.key>>
           c == cont[id]
           cont2 == IF ~ok THEN cont
                    ELSE IF e.kind = "init"
                    THEN [cont EXCEPT ![id] = Started(c, Val(e.n))]
                    ELSE [cont EXCEPT ![id] = Stopped(c)]
           pend2 == pending \ {e}
           w2 == [reg |-> reg, cont |-> cont2]
           what == IF e.kind = "init"
                   THEN (IF ok THEN "ready" ELSE "initfail")
                   ELSE (IF ok THEN "destroyed" ELSE "destroyfail")
       IN /\ cont' = cont2
          /\ pending' = pend2
          /\ log' = Append(log, Ev(what, e.by, e.owner, e.key, e.op))
          /\ nfail' = IF ok THEN nfail ELSE nfail + 1
          /\ stack' = IF ~Awaited(e) THEN stack
                      ELSE IF ok
                      THEN Raise(e.op, Resume(Waiting(e.op), w2, pend2))
                      ELSE Raise(e.op, [Waiting(e.op) EXCEPT !.pc = "reject"])
    /\ UNCHANGED <<reg, held, calls, proc>>

SettleResolve == \E e \in pending : Settle(e, TRUE)

SettleReject == \E e \in pending : Settle(e, FALSE)

\* The user reads a name through the accessor and keeps the plug it gets.
ReadPlug ==
    /\ Alive /\ Idle
    /\ \E key \in {"x"} :
          LET r == ServicesGet(W, "H", key)
              ref == [holder |-> "user",
                      plug |-> PlugId(MapGet(reg["H"].map, key).owner, key,
                                      ContOf(W, reg["H"].map, key).level)]
          IN /\ r.ok /\ r.isPlug
             /\ ref \notin held
             /\ held' = held \cup {ref}
    /\ UNCHANGED <<reg, cont, stack, pending, log, calls, nfail, proc>>

\* The names only() is called with; no program registers "z".
OnlyKeys == {"a", "c", "z"}

Next ==
    \/ CallStart
    \/ \E key \in OnlyKeys : CallOnly(key)
    \/ CallStop
    \/ StartPluginStep
    \/ StopPluginStep
    \/ StartServiceStep
    \/ StopServiceStep
    \/ SettleResolve
    \/ SettleReject
    \/ ReturnStep
    \/ RejectStep
    \/ ReadPlug

Spec == Init /\ [][Next]_vars

(***************************************************************************)
(* The same calls under the scheduling the runtime guarantees: a call      *)
(* chain that can run its next synchronous segment runs it (the event loop *)
(* runs every job that is ready), and -- the assumption that the outside   *)
(* world settles what it was asked for -- every promise a start function   *)
(* returned is settled.  Nothing is assumed about the user's calls or      *)
(* about the promises of stop functions.                                   *)
(***************************************************************************)
SettleStart ==
    \E e \in pending :
        e.kind = "init" /\ (Settle(e, TRUE) \/ Settle(e, FALSE))

Scheduling ==
    /\ WF_vars(StartPluginStep)
    /\ WF_vars(StartServiceStep)
    /\ WF_vars(SettleStart)
    /\ WF_vars(ReturnStep)
    /\ WF_vars(RejectStep)

SpecLive == Init /\ [][Next]_vars /\ Scheduling

(***************************************************************************)
(* Registries whose names collide with those of a registry bound in them.  *)
(***************************************************************************)
\* tests/froge-plugins.test.ts, "use(): trying to override existing
\* service": the bound registry registers a name the host registers too,
\* here at a level above the anchor.
ProgCollide ==
    [H |-> << CallUp(<<Svc("a", "promise", {}), Svc("b", "sync", {})>>, ""),
              CallUse("P", TRUE),
              CallUp(<<Svc("c", "sync", {})>>, ""),
              CallDown(<<Dst("a", "async"), Dst("b", "sync"),
                         Dst("c", "sync")>>) >>,
     P |-> << CallUp(<<Svc("p", "sync", {})>>, ""),
              CallUp(<<Svc("c", "sync", {})>>, ""),
              CallDown(<<Dst("p", "sync"), Dst("c", "sync")>>) >>,
     Q |-> <<>>,
     N |-> <<>>]

CollidePrograms == {ProgCollide}

InitCollide ==
    /\ \E prog \in CollidePrograms, ps \in BOOLEAN, pt \in BOOLEAN :
          LET b == BuildProgram(prog)
              w == FrogeConfigure(b.w, "H",
                      [parallelStartGroups |-> ps,
                       parallelStopGroups |-> pt]).w
          IN /\ b.ok
             /\ reg = w.reg
             /\ cont = w.cont
    /\ stack = <<>>
    /\ pending = {}
    /\ log = <<>>
    /\ held = {}
    /\ calls = <<>>
    /\ nfail = 0
    /\ proc = NewProcess

NextCollide ==
    \/ CallStart
    \/ \E key \in OnlyKeys : CallOnly(key)
    \/ CallStop
    \/ StartPluginStep
    \/ StopPluginStep
    \/ StartServiceStep
    \/ StopServiceStep
    \/ SettleResolve
    \/ SettleReject
    \/ ReturnStep
    \/ RejectStep

SpecCollide == InitCollide /\ [][NextCollide]_vars

(***************************************************************************)
(* Registries with start functions that produce no value: one that returns *)
(* nothing, one that always throws; and one with plugs whose overrides     *)
(* stopService passes over.                                                *)
(***************************************************************************)
\* A host and a bound registry, each with a start function that returns
\* nothing (undefined) and has a stop function.
ProgVoid ==
    [H |-> << CallUp(<<Svc("a", "void", {}), Svc("b", "promise", {})>>, ""),
              CallUse("P", TRUE),
              CallUp(<<Svc("c", "sync", {"a"})>>, ""),
              CallDown(<<Dst("a", "sync"), Dst("b", "async"),
                         Dst("c", "sync")>>) >>,
     P |-> << CallUp(<<Svc("p", "void", {})>>, ""),
              CallDown(<<Dst("p", "sync")>>) >>,
     Q |-> <<>>,
     N |-> <<>>]

\* A level whose second start function always throws while the first is
\* asynchronous.
ProgThrows ==
    [H |-> << CallUp(<<Svc("a", "sync", {})>>, ""),
              CallUp(<<Svc("c", "promise", {}), Svc("t", "throws", {})>>, ""),
              CallDown(<<Dst("a", "sync"), Dst("c", "sync")>>) >>,
     P |-> <<>>,
     Q |-> <<>>,
     N |-> <<>>]

\* Two plugs read by a definition of the next level; the override of the
\* first returns nothing, the override of the second has no stop function.
ProgPlugSkipped ==
    [H |-> << CallUp(<<Svc("x", "plug", {}), Svc("y", "plug", {})>>, ""),
              CallUp(<<Svc("c", "sync", {"x", "y"})>>, ""),
              CallUp(<<Svc("x", "void", {}), Svc("y", "sync", {})>>, ""),
              CallDown(<<Dst("c", "sync"), Dst("x", "sync")>>) >>,
     P |-> <<>>,
     Q |-> <<>>,
     N |-> <<>>]

VoidPrograms == {ProgVoid, ProgThrows, ProgPlugSkipped}

InitVoid ==
    /\ \E prog \in VoidPrograms, ps \in BOOLEAN, pt \in BOOLEAN :
          LET b == BuildProgram(prog)
              w == FrogeConfigure(b.w, "H",
                      [parallelStartGroups |-> ps,
                       parallelStopGroups |-> pt]).w
          IN /\ b.ok
             /\ reg = w.reg
             /\ cont = w.cont
    /\ stack = <<>>
    /\ pending = {}
    /\ log = <<>>
    /\ held = {}
    /\ calls = <<>>
    /\ nfail = 0
    /\ proc = NewProcess

NextVoid ==
    \/ CallStart
    \/ \E key \in OnlyKeys : CallOnly(key)
    \/ CallStop
    \/ StartPluginStep
    \/ StopPluginStep
    \/ StartServiceStep
    \/ StopServiceStep
    \/ SettleResolve
    \/ SettleReject
    \/ ReturnStep
    \/ RejectStep

SpecVoid == InitVoid /\ [][NextVoid]_vars

(***************************************************************************)
(* A registry with a stop function that always throws.                     *)
(***************************************************************************)
\* A level of two definitions, the stop function of the first asynchronous,
\* that of the second always throwing, with a bound registry and a level
\* above.
ProgStopThrows ==
    [H |-> << CallUp(<<Svc("a", "sync", {}), Svc("t", "sync", {})>>, ""),
              CallUse("P", TRUE),
              CallUp(<<Svc("c", "sync", {})>>, ""),
              CallDown(<<Dst("a", "async"), Dst("t", "throws"),
                         Dst("c", "sync")>>) >>,
     P |-> << CallUp(<<Svc("p", "sync", {})>>, ""),
              CallDown(<<Dst("p", "sync")>>) >>,
     Q |-> <<>>,
     N |-> <<>>]

StopFailPrograms == {ProgStopThrows}

InitStopFail ==
    /\ \E prog \in StopFailPrograms, ps \in BOOLEAN, pt \in BOOLEAN :
          LET b == BuildProgram(prog)
              w == FrogeConfigure(b.w, "H",
                      [parallelStartGroups |-> ps,
                       parallelStopGroups |-> pt]).w
          IN /\ b.ok
             /\ reg = w.reg
             /\ cont = w.cont
    /\ stack = <<>>
    /\ pending = {}
    /\ log = <<>>
    /\ held = {}
    /\ calls = <<>>
    /\ nfail = 0
    /\ proc = NewProcess

NextStopFail ==
    \/ CallStart
    \/ \E key \in OnlyKeys : CallOnly(key)
    \/ CallStop
    \/ StartPluginStep
    \/ StopPluginStep
    \/ StartServiceStep
    \/ StopServiceStep
    \/ SettleResolve
    \/ SettleReject
    \/ ReturnStep
    \/ RejectStep

SpecStopFail == InitStopFail /\ [][NextStopFail]_vars

(***************************************************************************)
(* The process lifecycle: launch(), shutdown() called by the user or by a  *)
(* signal handler, and the deadline timer.  The timer callback is a task   *)
(* of the event loop: it runs only while no call chain is running a        *)
(* synchronous segment, at any time after it was armed (time itself is not *)
(* modelled).  It logs the timeout and calls process.exit(1).              *)
(***************************************************************************)
TimerFire ==
    /\ Alive /\ Blocked
    /\ \E t \in proc.timers :
          /\ proc' = [proc EXCEPT !.exitCode = 1, !.timers = @ \ {t}]
          /\ log' = Append(log, Ev("timeout", "H", "", "", t.op))
    /\ UNCHANGED <<reg, cont, stack, pending, held, calls, nfail>>

\* tests/froge.test.ts, "launch(): ..." and "shutdown(): handles timeout":
\* one level of two definitions, the stop function of the first asynchronous.
ProgLifecycle ==
    [H |-> << CallUp(<<Svc("a", "sync", {}), Svc("b", "sync", {})>>, ""),
              CallDown(<<Dst("a", "async"), Dst("b", "sync")>>) >>,
     P |-> <<>>,
     Q |-> <<>>,
     N |-> <<>>]

LaunchPrograms == {ProgLifecycle, ProgLevels}

\* The grace periods a run is configured with: none, or 20 ms.
GracePeriods == {0, 20}

InitLaunch ==
    /\ \E prog \in LaunchPrograms, ps \in BOOLEAN, pt \in BOOLEAN,
          force \in BOOLEAN, ms \in GracePeriods :
          LET b == BuildProgram(prog)
              w == FrogeConfigure(b.w, "H",
                      [parallelStartGroups |-> ps,
                       parallelStopGroups |-> pt,
                       gracefulShutdownTimeoutMs |-> ms,
                       forceExitAfterShutdown |-> force]).w
          IN /\ b.ok
             /\ reg = w.reg
             /\ cont = w.cont
    /\ stack = <<>>
    /\ pending = {}
    /\ log = <<>>
    /\ held = {}
    /\ calls = <<>>
    /\ nfail = 0
    /\ proc = NewProcess

\* The user makes at most MaxLaunchOps calls in a run of the process.
LaunchBudget == nops < MaxLaunchOps

NextLaunch ==
    \/ LaunchBudget /\ CallLaunch
    \/ LaunchBudget /\ \E reason \in Signals \cup {""} : CallShutdown(reason)
    \/ TimerFire
    \/ LaunchBudget /\ CallStart
    \/ LaunchBudget /\ \E key \in OnlyKeys : CallOnly(key)
    \/ StartPluginStep
    \/ StopPluginStep
    \/ StartServiceStep
    \/ StopServiceStep
    \/ SettleResolve
    \/ SettleReject
    \/ ReturnStep
    \/ RejectStep

SpecLaunch == InitLaunch /\ [][NextLaunch]_vars

(***************************************************************************)
(* The builder calls on their own: the user registers definitions, stop    *)
(* functions and a bound registry on the host, in any order; nothing is    *)
(* started.  A call is recorded with its arguments and how it ended.       *)
(***************************************************************************)
MaxCalls == 3

RegCall(op, args, group, r) ==
    [op |-> op, key |-> r.key,
     status |-> IF r.err = "none" THEN "resolved" ELSE "rejected",
     v |-> r.err, args |-> args, group |-> group]

UpMenu ==
    {<<Svc("x", k, {})>> : k \in {"sync", "plug", "async", "throws", "promise"}}
      \cup {<<Svc("x", k, {"y"})>> : k \in {"sync", "plug"}}
      \cup {<<Svc("y", k, {})>> : k \in {"sync", "plug"}}
      \cup {<<Svc("y", "sync", {}), Svc("x", k, {})>> : k \in {"sync", "plug"}}

DownMenu ==
    {<<Dst("x", "sync")>>, <<Dst("y", "sync")>>, <<Dst("p", "sync")>>,
     <<Dst("x", "sync"), Dst("p", "sync")>>}

\* The registry "P" the user binds is constructed beforehand: a fresh one,
\* or (tests, "use(): same group names allowed in plugins") one that has
\* registered a definition in the group the host's calls name too.
PluginMenu == {<<>>, <<CallUp(<<Svc("p", "sync", {})>>, "g")>>}

InitReg ==
    /\ \E script \in PluginMenu :
          LET b == Build(NewWorld, "P", script, 1)
          IN /\ b.err = "none"
             /\ reg = b.w.reg
             /\ cont = b.w.cont
    /\ stack = <<>>
    /\ pending = {}
    /\ log = <<>>
    /\ held = {}
    /\ calls = <<>>
    /\ nfail = 0
    /\ proc = NewProcess

Registered(op, args, group, r) ==
    /\ reg' = r.w.reg
    /\ cont' = r.w.cont
    /\ calls' = Append(calls, RegCall(op, args, group, r))
    /\ UNCHANGED <<stack, pending, log, held, nfail, proc>>

RegUp ==
    /\ Len(calls) < MaxCalls
    /\ \E services \in UpMenu : \E group \in {"", "g"} :
          Registered("up", services, group,
                     FrogeUp(W, "H", services, group))

RegDown ==
    /\ Len(calls) < MaxCalls
    /\ \E destroyers \in DownMenu :
          Registered("down", destroyers, "", FrogeDown(W, "H", destroyers))

RegUse ==
    /\ Len(calls) < MaxCalls
    /\ Registered("use", <<>>, "", FrogeUse(W, "H", "P", TRUE))

NextReg == RegUp \/ RegDown \/ RegUse

SpecReg == InitReg /\ [][NextReg]_vars

(***************************************************************************)
(* Properties.  The log is read as the order in which start and stop       *)
(* functions were invoked and completed.                                   *)
(***************************************************************************)
LogIdx == 1..Len(log)

LevelOf(ev) == cont[<<ev.owner, ev.key>>].level

KindOf(ev) == cont[<<ev.owner, ev.key>>].init.kind

SameDef(x, y) == x.owner = y.owner /\ x.key = y.key

\* Event i is registry `by` invoking a start function in call op.
IsInit(i) == log[i].e = "init"

\* C1: within one start() or only() traversal, whenever a registry invokes
\* the start function of a definition of a higher level after that of a
\* definition of a lower level, the lower one has finished starting in
\* between -- in parallel mode and in sequential mode.
C1_LevelsInOrder ==
    \A i \in LogIdx : \A j \in LogIdx :
        (/\ i < j /\ IsInit(i) /\ IsInit(j)
         /\ log[i].op = log[j].op /\ log[i].by = log[j].by
         /\ LevelOf(log[i]) < LevelOf(log[j]))
        => \E k \in (i + 1)..(j - 1) :
              /\ log[k].e = "ready" /\ SameDef(log[k], log[i])
              /\ log[k].op = log[i].op

\* A start function of the second level has been invoked after an
\* asynchronous one of the first level, its sibling having been invoked
\* while it was pending.
C1_Witness ==
    \E i \in LogIdx : \E j \in LogIdx : \E m \in LogIdx :
        /\ i < m /\ m < j /\ IsInit(i) /\ IsInit(j) /\ IsInit(m)
        /\ log[i].op = log[j].op /\ log[i].by = "H" /\ log[j].by = "H"
        /\ log[m].op = log[i].op /\ log[m].by = "H"
        /\ LevelOf(log[m]) = LevelOf(log[i])
        /\ log[i + 1].e = "init"
        /\ LevelOf(log[i]) < LevelOf(log[j])
        /\ KindOf(log[i]) = "promise"

\* The definitions whose start (stop) function call op invoked, in order.
DefOf(ev) == <<ev.owner, ev.key>>

RECURSIVE Invoked(_, _, _)
Invoked(what, op, n) ==
    IF n = 0 THEN <<>>
    ELSE IF log[n].e = what /\ log[n].op = op
    THEN Append(Invoked(what, op, n - 1), DefOf(log[n]))
    ELSE Invoked(what, op, n - 1)

StartOrder(op) == Invoked("init", op, Len(log))

StopOrder(op) == Invoked("destroy", op, Len(log))

\* stopService has something to do for the definition once it runs.
Stoppable(id) == cont[id].destroy # "none" /\ cont[id].init.kind # "void"

RECURSIVE Only(_, _)
Only(ids, n) ==
    IF n = 0 THEN <<>>
    ELSE IF Stoppable(ids[n]) THEN Append(Only(ids, n - 1), ids[n])
    ELSE Only(ids, n - 1)

StoppableOf(ids) == Only(ids, Len(ids))

IsTraversal(c) == c.op \in {"start", "only"}

\* Call op is a stop() that completed, directly after a start() or only()
\* that completed; every call before completed too, and the traversal
\* began with nothing running (it is the first call or follows a stop()).
StopAfterStart(op) ==
    /\ op \in 2..Len(calls)
    /\ \A q \in 1..op : calls[q].status = "resolved"
    /\ calls[op].op = "stop"
    /\ IsTraversal(calls[op - 1])
    /\ (op > 2 => calls[op - 2].op = "stop")

\* C2: stop() invokes the stop functions in the reverse of the order in
\* which the preceding start() or only() traversal invoked the start
\* functions, across levels and plugin boundaries.
C2_StopReversesStart ==
    \A op \in 1..Len(calls) :
        StopAfterStart(op)
        => StopOrder(op) = Reverse(StoppableOf(StartOrder(op - 1)))

\* Call op of registry s has an event `what` for definition id; the event
\* "already" is startService finding the definition running.
InvokedIn(what, op, s, id) ==
    \E k \in LogIdx :
        /\ log[k].e = what /\ log[k].op = op /\ log[k].by = s
        /\ DefOf(log[k]) = id

IsAsync(kind) == kind \in {"promise", "async"}

ParallelStart(s) == reg[s].config.parallelStartGroups

ParallelStop(s) == reg[s].config.parallelStopGroups

\* C3: with parallelStartGroups, (a) no asynchronous sibling completes
\* between the invocations of two start functions of one level, and (b) a
\* traversal that awaits a level, or has moved past it, has invoked the
\* start function of every definition of that level that was not running.
C3_SiblingsInvokedTogether ==
    /\ \A i \in LogIdx : \A j \in LogIdx :
          (/\ i < j /\ IsInit(i) /\ IsInit(j)
           /\ log[i].op = log[j].op /\ log[i].by = log[j].by
           /\ LevelOf(log[i]) = LevelOf(log[j])
           /\ ParallelStart(log[i].by))
          => ~\E k \in (i + 1)..(j - 1) :
                /\ log[k].e = "ready" /\ log[k].op = log[i].op
                /\ log[k].by = log[i].by /\ IsAsync(KindOf(log[k]))
    /\ \A n \in 1..Len(stack) :
          LET fr == stack[n]
          IN (fr.op = "start" /\ ParallelStart(fr.srv) /\ fr.gi > 0)
             => \A g \in 1..fr.gi :
                  (g < fr.gi \/ fr.pc \in {"await", "plugins", "child"})
                  => \A m \in 1..Len(fr.groups[g].entries) :
                       LET id == <<fr.groups[g].entries[m].owner,
                                   fr.groups[g].entries[m].key>>
                       IN \/ InvokedIn("already", fr.opid, fr.srv, id)
                          \/ InvokedIn("init", fr.opid, fr.srv, id)

\* A parallel traversal awaits a level with a start function still pending
\* and a sibling declared after it already invoked.
C3_Witness ==
    /\ ~Idle /\ Top.op = "start" /\ Top.pc = "await" /\ ParallelStart(Top.srv)
    /\ \E e \in pending : \E j \in LogIdx : \E i \in LogIdx :
          /\ e.kind = "init" /\ e.op = Top.opid /\ e.by = Top.srv
          /\ i < j /\ IsInit(i) /\ IsInit(j)
          /\ DefOf(log[i]) = <<e.owner, e.key>> /\ log[i].op = e.op
          /\ log[j].op = e.op /\ log[j].by = e.by
          /\ LevelOf(log[j]) = LevelOf(log[i])

\* The position of a name in the registry's map: its declaration order.
DeclIndex(s, key) ==
    IF MapHas(reg[s].map, key)
    THEN CHOOSE n \in 1..Len(reg[s].map) : reg[s].map[n].key = key
    ELSE 0

OwnSiblings(x, y) ==
    /\ x.owner = x.by /\ y.owner = y.by
    /\ LevelOf(x) = LevelOf(y)

\* C4: with parallelStartGroups=false a registry invokes a start function
\* only after the one it invoked before has completed, and the definitions
\* of one level in declaration order; with parallelStopGroups=false it
\* invokes a stop function only after the one before has completed, and
\* those of one level in reverse declaration order.
C4_SequentialOrder ==
    \A i \in LogIdx : \A j \in LogIdx :
        (i < j /\ log[i].op = log[j].op /\ log[i].by = log[j].by)
        => /\ (IsInit(i) /\ IsInit(j) /\ ~ParallelStart(log[i].by))
              => /\ \E k \in (i + 1)..(j - 1) :
                       /\ log[k].e = "ready" /\ SameDef(log[k], log[i])
                       /\ log[k].op = log[i].op
                 /\ OwnSiblings(log[i], log[j])
                       => DeclIndex(log[i].by, log[i].key)
                            < DeclIndex(log[j].by, log[j].key)
           /\ (/\ log[i].e = "destroy" /\ log[j].e = "destroy"
               /\ ~ParallelStop(log[i].by))
              => /\ \E k \in (i + 1)..(j - 1) :
                       /\ log[k].e = "destroyed" /\ SameDef(log[k], log[i])
                       /\ log[k].op = log[i].op
                 /\ OwnSiblings(log[i], log[j])
                       => DeclIndex(log[i].by, log[i].key)
                            > DeclIndex(log[j].by, log[j].key)

\* A sequential host has started two siblings, the first asynchronous, and
\* has stopped two siblings, the first of them asynchronous.
C4_Witness ==
    /\ ~ParallelStart("H") /\ ~ParallelStop("H")
    /\ \E i \in LogIdx : \E j \in LogIdx :
          /\ i < j /\ IsInit(i) /\ IsInit(j) /\ log[i].by = "H"
          /\ log[i].op = log[j].op /\ log[j].by = "H"
          /\ OwnSiblings(log[i], log[j]) /\ IsAsync(KindOf(log[i]))
    /\ \E i \in LogIdx : \E j \in LogIdx :
          /\ i < j /\ log[i].e = "destroy" /\ log[j].e = "destroy"
          /\ log[i].op = log[j].op /\ log[i].by = "H" /\ log[j].by = "H"
          /\ OwnSiblings(log[i], log[j])
          /\ cont[DefOf(log[j])].destroy = "async"
          /\ log[Len(log)].e = "destroyed"
          /\ SameDef(log[Len(log)], log[j])

\* The registries bound with use() in registry s, and their anchors.
BoundIn(s) == {reg[s].plugins[n].other : n \in 1..Len(reg[s].plugins)}

BindIndex(s, other) ==
    CHOOSE n \in 1..Len(reg[s].plugins) : reg[s].plugins[n].other = other

Anchor(s, other) == reg[s].plugins[BindIndex(s, other)].after

\* The names a registry's own definitions and those of the registries bound
\* in it, directly or through another bound registry, are registered under.
RECURSIVE Provides(_)
Provides(s) ==
    {id[2] : id \in {x \in DOMAIN cont : x[1] = s}}
        \cup UNION {Provides(o) : o \in BoundIn(s)}

\* After event n registry s has the definitions of `other` merged.
MergedAt(s, other, n) ==
    \E m \in 1..n :
        /\ log[m].e = "merge" /\ log[m].by = s /\ log[m].owner = other
        /\ ~\E u \in (m + 1)..n :
              /\ log[u].e = "unmerge" /\ log[u].by = s
              /\ log[u].owner = other

\* Before event n definition id has finished starting and has not been
\* stopped since.
RunningAt(id, n) ==
    \E k \in 1..(n - 1) :
        /\ log[k].e = "ready" /\ DefOf(log[k]) = id
        /\ ~\E u \in (k + 1)..(n - 1) :
              log[u].e = "destroyed" /\ DefOf(log[u]) = id

\* C5: a registry bound with use() after level L (a) is materialised only
\* when every definition of level L of the host is running, (b) is merged,
\* its own start() having completed, before the host invokes the start
\* function of one of its definitions of a higher level, and (c) only
\* while merged are the names it provides readable through the host's
\* accessor.
C5_PluginBetweenLevels ==
    \A s \in Srv : \A other \in BoundIn(s) :
        /\ \A m \in LogIdx :
              (/\ log[m].e = "materialize" /\ log[m].by = s
               /\ log[m].owner = other)
              => \A id \in DOMAIN cont :
                    (id[1] = s /\ cont[id].level = Anchor(s, other))
                    => RunningAt(id, m)
        /\ \A j \in LogIdx :
              (/\ IsInit(j) /\ log[j].by = s /\ log[j].owner = s
               /\ LevelOf(log[j]) > Anchor(s, other))
              => MergedAt(s, other, j)
        /\ \A key \in Provides(other) :
              ServicesGet(W, s, key).ok => MergedAt(s, other, Len(log))

IsTeardown(t, s, other) ==
    log[t].e = "teardown" /\ log[t].by = s /\ log[t].owner = other

\* Event j is registry s invoking the stop function of one of its own
\* definitions in call op.
IsOwnDestroy(j, s, op) ==
    /\ log[j].e = "destroy" /\ log[j].by = s /\ log[j].owner = s
    /\ log[j].op = op

UnmergedBetween(s, other, op, t, j) ==
    \E u \in (t + 1)..(j - 1) :
        /\ log[u].e = "unmerge" /\ log[u].by = s /\ log[u].owner = other
        /\ log[u].op = op

\* C6: in a stop(), the teardown of a registry bound after level L comes
\* (a) after every stop function the host invokes for a higher level, each
\* settled, and (b) complete before any stop function the host invokes for
\* level L or below; (c) registries bound at one anchor are torn down one
\* after the other in reverse bind order.
C6_TeardownBetweenLevels ==
    \A s \in Srv : \A other \in BoundIn(s) : \A t \in LogIdx :
        IsTeardown(t, s, other)
        => /\ \A j \in LogIdx :
                 IsOwnDestroy(j, s, log[t].op)
                 => IF LevelOf(log[j]) > Anchor(s, other)
                    THEN /\ j < t
                         /\ \E k \in (j + 1)..(t - 1) :
                               /\ log[k].e \in {"destroyed", "destroyfail"}
                               /\ SameDef(log[k], log[j])
                               /\ log[k].op = log[t].op
                    ELSE UnmergedBetween(s, other, log[t].op, t, j)
           /\ \A o2 \in BoundIn(s) : \A t2 \in LogIdx :
                 (/\ IsTeardown(t2, s, o2) /\ t < t2
                  /\ log[t2].op = log[t].op
                  /\ Anchor(s, o2) = Anchor(s, other))
                 => /\ BindIndex(s, o2) < BindIndex(s, other)
                    /\ UnmergedBetween(s, other, log[t].op, t, t2)

\* A stop() has stopped the second level, torn down the two registries bound
\* after the first level, and gone on to stop the first level.
C6_Witness ==
    /\ Len(log) > 0
    /\ log[Len(log)].e = "destroyed" /\ log[Len(log)].by = "H"
    /\ \E t \in LogIdx :
          /\ IsTeardown(t, "H", "Q") /\ log[t].op = log[Len(log)].op
          /\ \E t2 \in (t + 1)..Len(log) : IsTeardown(t2, "H", "P")
          /\ \E h \in 1..(t - 1) : IsOwnDestroy(h, "H", log[t].op)

\* The user's last call was only() and has just returned its value.
OnlyReturned ==
    /\ Idle /\ Len(calls) > 0 /\ Len(log) > 0
    /\ LastCall.op = "only" /\ LastCall.status = "resolved"
    /\ log[Len(log)].e = "return"

TargetLevel == cont[<<"H", LastCall.key>>].level

OwnDefs(s) == {id \in DOMAIN cont : id[1] = s}

\* C7: when only(name) returns, the target, every definition of the host
\* at a lower level and every registry bound below the target's level are
\* started; the call has invoked no other start function of the host and
\* materialised no other bound registry; and a stop() that follows invokes
\* stop functions only of definitions the only() call started.
C7_OnlyStartsBelow ==
    /\ (OnlyReturned /\ InvokedIn("init", Len(calls), "H", <<"H", LastCall.key>>))
       => /\ cont[<<"H", LastCall.key>>].up
          /\ \A id \in OwnDefs("H") : cont[id].level < TargetLevel => cont[id].up
          /\ \A o \in BoundIn("H") :
                Anchor("H", o) < TargetLevel => MergedAt("H", o, Len(log))
          /\ \A k \in LogIdx :
                (log[k].op = Len(calls) /\ log[k].by = "H")
                => /\ IsInit(k)
                      => \/ DefOf(log[k]) = <<"H", LastCall.key>>
                         \/ /\ log[k].owner = "H"
                            /\ LevelOf(log[k]) < TargetLevel
                   /\ log[k].e = "materialize"
                      => Anchor("H", log[k].owner) < TargetLevel
    /\ \A op \in 1..Len(calls) :
          (StopAfterStart(op) /\ calls[op - 1].op = "only")
          => \A k \in LogIdx :
                (log[k].e = "destroy" /\ log[k].op = op)
                => \E i \in LogIdx :
                      /\ IsInit(i) /\ log[i].op = op - 1
                      /\ SameDef(log[i], log[k])

\* Call Len(calls) has invoked the start function of host definition id;
\* has invoked it or found the definition running.
StartedByLastCall(id) == InvokedIn("init", Len(calls), "H", id)

VisitedByLastCall(id) ==
    StartedByLastCall(id) \/ InvokedIn("already", Len(calls), "H", id)

CompletedInLastCall(id) == InvokedIn("ready", Len(calls), "H", id)

\* only(name) has just returned after a traversal: the target was not
\* running when it was called.
OnlyRan == OnlyReturned /\ StartedByLastCall(<<"H", LastCall.key>>)

\* C8 as the specification words it: the traversal of only(name) starts
\* exactly the definitions of the host at levels <= name's level.
C8_OnlyLevelsUpTo ==
    OnlyRan
    => \A id \in OwnDefs("H") :
          VisitedByLastCall(id) <=> cont[id].level <= TargetLevel

\* C8 as the code has it: the traversal of only(name) starts exactly the
\* target and the definitions of the host at levels strictly below name's
\* level (each is invoked and completes, or is found running), and none of
\* the target's siblings.
C8_OnlyTargetAndBelow ==
    OnlyRan
    => \A id \in OwnDefs("H") :
          /\ VisitedByLastCall(id)
                <=> (id[2] = LastCall.key \/ cont[id].level < TargetLevel)
          /\ StartedByLastCall(id) => CompletedInLastCall(id)

\* only() has run a traversal up to a target of the second level whose
\* sibling is left not running.
C8_Witness ==
    /\ OnlyRan
    /\ \E id \in OwnDefs("H") :
          StartedByLastCall(id) /\ cont[id].level < TargetLevel
    /\ \E id \in OwnDefs("H") :
          /\ cont[id].level = TargetLevel /\ id[2] # LastCall.key
          /\ ~cont[id].up /\ cont[id].inv = 0

\* The definition that overrides the plug a reference points to.
OverrideOf(ref) == cont[<<ref.plug.owner, ref.plug.key>>]

\* C9: calling a plug reference fails as long as the overriding definition
\* has not started; once it has, every reference handed out -- to a start
\* function registered before or after the override, or to the user
\* through the accessor -- yields what the started override yields.
C9_PlugResolves ==
    \A ref \in held :
        IF OverrideOf(ref).up
        THEN /\ PlugCall(W, ref.plug).ok
             /\ PlugCall(W, ref.plug).v = Result(OverrideOf(ref).value)
        ELSE ~PlugCall(W, ref.plug).ok

\* The override is running, and a start function registered before it, one
\* registered after it and the user, who read the accessor before start,
\* all hold the plug.
C9_Witness ==
    /\ \E ref \in held : ref.holder = "c" /\ OverrideOf(ref).up
    /\ \E ref \in held : ref.holder = "d" /\ OverrideOf(ref).up
    /\ \E ref \in held : ref.holder = "user" /\ PlugCall(W, ref.plug).ok
    /\ \E k \in LogIdx :
          /\ IsInit(k) /\ log[k].key = "c"
          /\ ~\E u \in 1..k : IsInit(u) /\ log[u].key = "x"

\* A start function that is a plug: all it does is return ctx.plug().
IsPlugDef(init) == init.kind = "plug" /\ init.reads = {}

\* The step is an up() call; OverrideStep(n) says what it does about the
\* n-th name it was given when that name was registered before the call.
IsUpStep ==
    /\ Len(calls') = Len(calls) + 1
    /\ calls'[Len(calls')].op = "up"

OverrideStep(n) ==
    LET call == calls'[Len(calls')]
        key == call.args[n].key
        id == <<"H", key>>
    IN MapHas(reg["H"].map, key)
       => /\ call.status = "resolved" => IsPlugDef(cont[id].init)
          /\ ~IsPlugDef(cont[id].init)
                => /\ call.status = "rejected"
                   /\ cont'[id] = cont[id]
                   /\ MapHas(reg'["H"].map, key)
                   /\ MapGet(reg'["H"].map, key) = MapGet(reg["H"].map, key)

\* C10: an up() call that names a registered definition returns only if
\* that definition is a plug; if its start function is async, throws,
\* touches the context or returns something else, up() throws at the call
\* and the registered definition stays as it was.
C10_OverrideOnlyPlug ==
    [][IsUpStep
       => \A n \in 1..Len(calls'[Len(calls')].args) : OverrideStep(n)]_vars

\* up() has just thrown for a registered name whose start function returns
\* no plug, after an up() that overrode a plug.
C10_Witness ==
    /\ Len(calls) = 3
    /\ calls[2].op = "up" /\ calls[2].status = "resolved"
    /\ cont[<<"H", "x">>].plug
    /\ calls[3].op = "up" /\ calls[3].status = "rejected"
    /\ calls[3].key = "x" /\ calls[3].v = "didn't return a Froge plug"

\* The names read through the accessor: every registered name of a run, and
\* "z", which no registry registers.
Names == {id[2] : id \in DOMAIN cont} \cup {"z"}

\* The definition the host's map holds under the name is running.
RunningIn(s, key) ==
    MapHas(reg[s].map, key) /\ ContOf(W, reg[s].map, key).up

\* C11: reading a name through the host's accessor throws when the name is
\* not in the host's registry (never registered, or provided by a bound
\* registry that is not merged) and when the definition registered under it
\* has not been started.
C11_UnreadableUntilStarted ==
    \A key \in Names :
        ~RunningIn("H", key) => ~ServicesGet(W, "H", key).ok

\* Every call so far has completed without error and the last one, a
\* stop(), has just returned.
StopReturned ==
    /\ Idle /\ Len(calls) > 0
    /\ \A q \in 1..Len(calls) : calls[q].status = "resolved"
    /\ LastCall.op = "stop"

\* Call op is a start() that follows a start() and a stop(), all complete.
SecondCycle(op) ==
    /\ op \in 3..Len(calls)
    /\ \A q \in 1..op : calls[q].status = "resolved"
    /\ calls[op].op = "start" /\ calls[op - 1].op = "stop"
    /\ calls[op - 2].op = "start"
    /\ (op > 3 => calls[op - 3].op = "stop")

\* C12: once stop() has returned no definition is running, with or without
\* a stop function: the running flag is down, the instance is cleared and
\* the accessor throws for its name; and the start() that follows invokes
\* the start functions again, in the order of the cycle before.
C12_StoppedAfterStop ==
    /\ StopReturned
       => \A id \in DOMAIN cont :
             /\ ~cont[id].up
             /\ cont[id].value = Undef
             /\ MapHas(reg["H"].map, id[2])
                   => LET r == ServicesGet(W, "H", id[2])
                      IN ~r.ok \/ r.isPlug
    /\ \A op \in 1..Len(calls) :
          SecondCycle(op) => StartOrder(op) = StartOrder(op - 2)

\* Event k is launch() logging that its start() has failed.
IsFailedStart(k) == log[k].e = "failedstart"

\* The stop functions the cleanup of the launch() of event k has invoked are
\* those of definitions that were running when the failure was handled.
CleanupOnlyStarted(k) ==
    \A j \in (k + 1)..Len(log) :
        (log[j].e = "destroy" /\ log[j].op = log[k].op)
        => RunningAt(DefOf(log[j]), k)

\* Every definition that was running when the failure was handled and has a
\* stop function has had it invoked by the cleanup.
CleanupAllStarted(k) ==
    \A id \in DOMAIN cont :
        (RunningAt(id, k) /\ cont[id].destroy # "none")
        => \E j \in (k + 1)..Len(log) :
              /\ log[j].e = "destroy" /\ log[j].op = log[k].op
              /\ DefOf(log[j]) = id

\* The process has not been terminated in, or on behalf of, call op: not
\* while the call was the last one made, and not by a timer it armed.
NotTerminatedBy(op) ==
    /\ Len(calls) = op => Alive
    /\ ~\E t \in LogIdx : log[t].e = "timeout" /\ log[t].op = op

\* C13: when start() fails inside launch(), launch() logs the failure and
\* does not reject; the process is not terminated; the cleanup shutdown
\* invokes the stop function of the definitions that were running, and of
\* no other, and has invoked all of them when launch() returns.
C13_LaunchCleansUp ==
    \A k \in LogIdx :
        IsFailedStart(k)
        => /\ calls[log[k].op].op = "launch"
           /\ calls[log[k].op].status # "rejected"
           /\ NotTerminatedBy(log[k].op)
           /\ CleanupOnlyStarted(k)
           /\ calls[log[k].op].status = "resolved" => CleanupAllStarted(k)

\* Event t is the deadline timer of a shutdown logging the timeout.
IsTimeout(t) == log[t].e = "timeout"

\* The stop() of the shutdown that armed the timer of event t has not
\* returned.
StopIncomplete(t) ==
    /\ calls[log[t].op].status = "running"
    /\ ~Idle /\ stack[1].op = "stop" /\ stack[1].opid = log[t].op

\* C14: when the deadline timer of a shutdown runs, the timeout is logged
\* once and the process is terminated with status 1: nothing is invoked,
\* completed or logged after it, and a stop() that had not returned, with
\* the stop functions it waits for, is left as it was.
C14_TimeoutKills ==
    \A t \in LogIdx :
        IsTimeout(t)
        => /\ t = Len(log)
           /\ proc.exitCode = 1
           /\ \E k \in 1..(t - 1) : log[k].e = "arm" /\ log[k].op = log[t].op

\* The deadline has passed while the stop() of a shutdown awaited a stop
\* function that has not settled.
C14_Witness ==
    /\ Len(log) > 0 /\ IsTimeout(Len(log)) /\ StopIncomplete(Len(log))
    /\ proc.exitCode = 1
    /\ LastCall.op = "shutdown" /\ Top.pc = "await"
    /\ \E e \in pending : e.kind = "destroy" /\ e.op = Len(calls)

\* Event k is a stop function failing inside the stop() of a shutdown().
IsShutdownFailure(k) ==
    log[k].e = "destroyfail" /\ InShutdown(calls[log[k].op])

\* C15: shutdown() never rejects; once a stop function has failed inside it
\* (its siblings of a parallel level are invoked nevertheless), the failure
\* is logged and process.exit(1) is called: shutdown() does not return.
C15_StopFailureKills ==
    /\ \A q \in 1..Len(calls) :
          calls[q].op = "shutdown" => calls[q].status # "rejected"
    /\ \A k \in LogIdx :
          IsShutdownFailure(k)
          => /\ calls[log[k].op].status = "running"
             /\ IF ChainOf(log[k].op) = <<>>
                THEN /\ proc.exitCode = 1
                     /\ log[Len(log)].e = "incomplete"
                     /\ log[Len(log)].op = log[k].op
                ELSE /\ Alive /\ Top.opid = log[k].op
                     /\ Top.pc = "reject" \/ (Top.pc = "group" /\ Top.failed)

\* A stop function has failed in a shutdown() the user called: the failure
\* is logged and the process terminated with status 1.
C15_Witness ==
    /\ Len(log) > 1 /\ log[Len(log)].e = "incomplete"
    /\ proc.exitCode = 1 /\ LastCall.op = "shutdown"
    /\ \E k \in LogIdx : IsShutdownFailure(k) /\ log[k].op = Len(calls)

\* Call q has returned to its caller: the event of its return.
ReturnedAt(q, r) == log[r].e = "return" /\ log[r].op = q

\* The last thing logged is a failure of stop() or a timeout.
EndedBadly ==
    Len(log) > 0 /\ log[Len(log)].e \in {"incomplete", "timeout"}

\* The host is configured with forceExitAfterShutdown.
ForceConfigured == reg["H"].config.forceExitAfterShutdown

C17_TimerCancelled ==
    /\ \A tm \in proc.timers : calls[tm.op].status # "resolved"
    /\ \A t \in LogIdx : IsTimeout(t) => calls[log[t].op].status # "resolved"

\* Call q has armed a deadline timer.
ArmedBy(q) == \E k \in LogIdx : log[k].e = "arm" /\ log[k].op = q

\* C18: every shutdown() arms a deadline timer, whether the user calls it
\* directly, a signal handler calls it, or launch() calls it as cleanup,
\* and whether or not a grace period was configured.
C18_ShutdownArmsTimer ==
    /\ \A q \in 1..Len(calls) : calls[q].op = "shutdown" => ArmedBy(q)
    /\ \A k \in LogIdx : IsFailedStart(k) => ArmedBy(log[k].op)

\* The names registry s registers itself, with up().
OwnKeys(s) == {id[2] : id \in OwnDefs(s)}

\* A registry bound in s registers a name that s registers too.
CollidesWith(s, other) == OwnKeys(s) \cap OwnKeys(other) # {}

\* Call q is a traversal of the host that reaches the anchor of `other`:
\* a start(), or an only() whose target is above the anchor.
ReachesAnchor(q, other) ==
    \/ calls[q].op = "start"
    \/ /\ calls[q].op = "only" /\ <<"H", calls[q].key>> \in DOMAIN cont
       /\ cont[<<"H", calls[q].key>>].level > Anchor("H", other)

\* C19: when a registry bound in the host registers a name the host
\* registers too, no traversal that reaches its anchor completes: each
\* fails with the error naming a colliding key, no start function of the
\* bound registry is ever invoked, and none of its definitions is merged
\* into the host's registry.
C19_CollisionAborts ==
    \A other \in BoundIn("H") :
        CollidesWith("H", other)
        => /\ \A q \in 1..Len(calls) :
                 ReachesAnchor(q, other) => calls[q].status # "resolved"
           /\ \A id \in OwnDefs(other) : cont[id].inv = 0
           /\ \A i \in 1..Len(reg["H"].map) : reg["H"].map[i].owner # other
           /\ \A k \in LogIdx :
                 (log[k].e = "conflict" /\ log[k].owner = other)
                 => log[k].key \in OwnKeys("H") \cap OwnKeys(other)

\* The registries whose definitions the host's map holds.
OwnersIn(s) == {reg[s].map[i].owner : i \in 1..Len(reg[s].map)}

\* C20: once stop() has returned, the host's registry holds no definition
\* of a bound registry, or of a registry bound in a bound registry: only
\* what the host registered with its own up().
C20_UnmergedAfterStop ==
    StopReturned => OwnersIn("H") \subseteq {"H"}

\* The step is a use() call.
IsUseStep ==
    /\ Len(calls') = Len(calls) + 1
    /\ calls'[Len(calls')].op = "use"

\* What an up() call does about its group name.
GroupStep ==
    LET call == calls'[Len(calls')]
    IN IF call.group # "" /\ call.group \in reg["H"].groups
       THEN /\ call.status = "rejected" /\ call.v = "group exists"
            /\ reg' = reg /\ cont' = cont
       ELSE call.v # "group exists"

\* The registry bound last, and what the use() call left of the host.
BoundStep ==
    LET call == calls'[Len(calls')]
        n == Len(reg'["H"].plugins)
    IN /\ call.status = "resolved"
       /\ n = Len(reg["H"].plugins) + 1
       /\ reg'["H"].plugins[n].other = "P"
       /\ reg'["H"].groups = reg["H"].groups
       /\ reg'["H"].map = reg["H"].map

IsDownStep ==
    /\ Len(calls') = Len(calls) + 1
    /\ calls'[Len(calls')].op = "down"

\* The names a call was given.
ArgKeys(call) == {call.args[n].key : n \in 1..Len(call.args)}

\* What a down() call does: it throws exactly when the host's map lacks one
\* of the names, naming the first such; it changes the stop function of no
\* definition but those the map holds under the names given; it registers
\* nothing; and when it returns every name given has its stop function.
DownStep ==
    LET call == calls'[Len(calls')]
        unknown == {k \in ArgKeys(call) : ~MapHas(reg["H"].map, k)}
    IN /\ call.status = "rejected" <=> unknown # {}
       /\ call.status = "rejected"
             => call.v = "unknown service" /\ call.key \in unknown
       /\ reg' = reg
       /\ DOMAIN cont' = DOMAIN cont
       /\ \A id \in DOMAIN cont :
             cont'[id] # cont[id]
             => /\ id[2] \in ArgKeys(call)
                /\ MapHas(reg["H"].map, id[2])
                /\ MapGet(reg["H"].map, id[2]).owner = id[1]
                /\ cont'[id] = [cont[id] EXCEPT !.destroy = cont'[id].destroy]
       /\ call.status = "resolved"
             => \A n \in 1..Len(call.args) :
                   ContOf([reg |-> reg', cont |-> cont'], reg'["H"].map,
                          call.args[n].key).destroy = call.args[n].destroy

\* C22: down() attaches a stop function only to a name the registry holds
\* when it is called, and throws when it is given a name the registry does
\* not hold -- a name never registered, or one that only a registry bound
\* with use() and not merged provides.
C22_DownKnownNamesOnly ==
    [][IsDownStep => DownStep]_vars

\* The host has bound a registry that provides p, and a down() naming x,
\* which the host registered, and p has thrown for p; p has no stop
\* function.
C22_Witness ==
    /\ Len(calls) = 3
    /\ calls[1].op = "up" /\ calls[1].status = "resolved"
    /\ calls[2].op = "use" /\ calls[2].status = "resolved"
    /\ <<"P", "p">> \in DOMAIN cont
    /\ calls[3].op = "down" /\ calls[3].status = "rejected"
    /\ calls[3].key = "p" /\ ArgKeys(calls[3]) = {"x", "p"}
    /\ MapHas(reg["H"].map, "x")
    /\ cont[<<"P", "p">>].destroy = "none"

\* The name is an unresolved plug in registry s: the definition registered
\* under it is a plug no up() has overridden, or it is the override of a
\* plug and has not started.
UnresolvedPlug(s, key) ==
    /\ MapHas(reg[s].map, key)
    /\ LET c == ContOf(W, reg[s].map, key)
       IN \/ c.init.kind = "plug"
          \/ c.plug /\ ~c.up

\* C23: reading through the host's accessor a name that is an unresolved
\* plug throws.
C23_UnresolvedPlugThrows ==
    \A key \in Names :
        UnresolvedPlug("H", key) => ~ServicesGet(W, "H", key).ok

\* Call q is an up() that returned and was given the name.
Registers(q, key) ==
    /\ calls[q].op = "up" /\ calls[q].status = "resolved"
    /\ key \in ArgKeys(calls[q])

\* The accepted up() calls that re-register the name: an earlier accepted
\* up() had registered it.
Overrides(key) ==
    {q \in 1..Len(calls) :
        Registers(q, key) /\ \E p0 \in 1..(q - 1) : Registers(p0, key)}

\* C24: over any sequence of up() calls, at most one up() call that
\* re-registers a name is accepted.
C24_OverriddenAtMostOnce ==
    \A key \in {"x", "y"} : Cardinality(Overrides(key)) <= 1

\* C25: for every definition, an instance is present exactly when the
\* running flag is set.
C25_InstanceIffRunning ==
    \A id \in DOMAIN cont : cont[id].value # Undef <=> cont[id].up

\* Event f is a start function failing: it threw, or its promise rejected.
IsInitFail(f) == log[f].e = "initfail"

\* What the traversal of event f's call does after the failure: nothing of
\* another registry or of another level is invoked, in sequential mode
\* nothing at all; no bound registry is materialised or merged.
AbortedAfter(f) ==
    \A j \in (f + 1)..Len(log) :
        log[j].op = log[f].op
        => /\ log[j].e \in {"init", "already"}
              => /\ log[j].by = log[f].by
                 /\ LevelOf(log[j]) = LevelOf(log[f])
                 /\ ParallelStart(log[f].by)
           /\ log[j].e \notin {"materialize", "merge", "return"}

\* The call of event f rejects: it is rejected, or the rejection is on its
\* way to the caller.
Propagates(f) ==
    LET q == log[f].op
    IN \/ calls[q].status = "rejected"
       \/ /\ calls[q].status = "running" /\ q = Len(calls) /\ ~Idle
          /\ \/ Top.pc = "reject"
             \/ Top.pc = "group" /\ Top.failed /\ ParallelStart(Top.srv)

\* What holds of every failed start function: the traversal is aborted, the
\* call does not resolve, and the definition is running after the failure
\* only if another invocation of its start function has completed.
FailedStartAbortsTraversal ==
    \A f \in LogIdx :
        IsInitFail(f)
        => /\ AbortedAfter(f)
           /\ Propagates(f)
           /\ (f = Len(log) /\ ~RunningAt(DefOf(log[f]), f))
                 => /\ ~cont[DefOf(log[f])].up
                    /\ cont[DefOf(log[f])].value = Undef

\* C26: a failing start function aborts the traversal and the error reaches
\* the caller of start() or only(): after the failure the call invokes no
\* start function of a higher level or of another registry, in sequential
\* mode not those of the later siblings either, and materialises and merges
\* no bound registry; the call does not resolve; and the failed definition
\* is left not running.
C26_FailedStartAborts ==
    \A f \in LogIdx :
        IsInitFail(f)
        => /\ AbortedAfter(f)
           /\ Propagates(f)
           /\ f = Len(log)
                 => /\ ~cont[DefOf(log[f])].up
                    /\ cont[DefOf(log[f])].value = Undef

\* Between events i and j the stop function of the definition has completed.
StoppedBetween(id, i, j) ==
    \E k \in (i + 1)..(j - 1) : log[k].e = "destroyed" /\ DefOf(log[k]) = id

\* Call q is only(key) and has returned the value of the target.
OnlyResolved(q, key) ==
    /\ calls[q].op = "only" /\ calls[q].key = key
    /\ calls[q].status = "resolved"

\* The event of the return of call q.
ReturnIdx(q) == CHOOSE r \in LogIdx : ReturnedAt(q, r)

\* Call q has run a traversal: it has called startService.
RanTraversal(q) ==
    \E k \in LogIdx : log[k].op = q /\ log[k].e \in {"init", "already"}

\* There is no stop() among the calls q..r.
NoStopIn(q, r) == \A n \in q..r : calls[n].op # "stop"

\* C27: over start() and only() calls with no stop() in between, the start
\* function of a definition is invoked at most once, and only(name) on a
\* target that an earlier only(name) has returned runs no traversal and
\* returns the same value.
C27_StartedAtMostOnce ==
    /\ \A i \in LogIdx : \A j \in LogIdx :
          (i < j /\ IsInit(i) /\ IsInit(j) /\ SameDef(log[i], log[j]))
          => ~NoStopIn(log[i].op, log[j].op)
    /\ \A q \in 1..Len(calls) : \A r \in 1..Len(calls) :
          \A key \in OnlyKeys :
             (/\ q < r /\ OnlyResolved(q, key) /\ OnlyResolved(r, key)
              /\ NoStopIn(q, r))
             => ~RanTraversal(r) /\ calls[r].v = calls[q].v

\* What holds of every run: the start function of a running definition is
\* never invoked; a start function is invoked a second time only after the
\* definition has been stopped or a call in between has failed; and, as
\* long as no call has failed, only(name) on a target that has not been
\* stopped since an earlier only(name) returned it runs no traversal and
\* returns the same value.
RunningNotRestarted ==
    /\ \A j \in LogIdx : IsInit(j) => ~RunningAt(DefOf(log[j]), j)
    /\ \A i \in LogIdx : \A j \in LogIdx :
          (i < j /\ IsInit(i) /\ IsInit(j) /\ SameDef(log[i], log[j]))
          => \/ StoppedBetween(DefOf(log[i]), i, j)
             \/ \E q \in log[i].op..(log[j].op - 1) :
                   calls[q].status = "rejected"
    /\ \A q \in 1..Len(calls) : \A r \in 1..Len(calls) :
          \A key \in OnlyKeys :
             (/\ q < r /\ OnlyResolved(q, key) /\ OnlyResolved(r, key)
              /\ \A n \in 1..r : calls[n].status # "rejected"
              /\ ~StoppedBetween(<<"H", key>>, ReturnIdx(q), ReturnIdx(r)))
             => /\ ~RanTraversal(r)
                /\ calls[r].v = calls[q].v
                /\ calls[r].v # Undef

\* The definitions an accepted up() installed in place of a plug.
OverrideDefs == {id \in DOMAIN cont : cont[id].plug}

\* The definitions of the same registry at the levels below that of id.
LowerDefs(id) ==
    {x \in DOMAIN cont : x[1] = id[1] /\ cont[x].level < cont[id].level}

\* C28: the plug's own start function is never run (no start function
\* yields a plug, and the name is registered once); the start function of
\* the override is invoked only when every definition of the levels below
\* its own -- those between the plug's level and its own among them -- is
\* running; and in a stop() the stop function of a lower level is invoked
\* only when the override has been stopped.
C28_OverrideAtNewLevel ==
    /\ \A id \in DOMAIN cont : cont[id].value.t # "plug"
    /\ \A id \in OverrideDefs :
          /\ Cardinality({i \in 1..Len(reg[id[1]].map) :
                             reg[id[1]].map[i].key = id[2]}) = 1
          /\ cont[id].init.kind # "plug"
          /\ \A j \in LogIdx :
                /\ (IsInit(j) /\ DefOf(log[j]) = id)
                      => \A x \in LowerDefs(id) : RunningAt(x, j)
                /\ (log[j].e = "destroy" /\ DefOf(log[j]) \in LowerDefs(id))
                      => ~RunningAt(id, j)

\* In the program of the test, the override of x (third level) has started
\* after c (second level, registered before the override) and a (the
\* plug's level), and a stop() has stopped x first, then c, then a.
C28_Witness ==
    LET x == <<"H", "x">>
    IN /\ x \in OverrideDefs /\ <<"H", "a">> \in DOMAIN cont
       /\ cont[<<"H", "a">>].level = 0 /\ cont[<<"H", "c">>].level = 1
       /\ cont[x].level = 2
       /\ \E i \in LogIdx : \E j \in LogIdx :
             /\ i < j /\ log[i].e = "ready" /\ DefOf(log[i]) = <<"H", "c">>
             /\ IsInit(j) /\ DefOf(log[j]) = x /\ log[i].op = log[j].op
       /\ \E i \in LogIdx : \E j \in LogIdx : \E k \in LogIdx :
             /\ i < j /\ j < k
             /\ log[i].e = "destroyed" /\ DefOf(log[i]) = x
             /\ log[j].e = "destroy" /\ DefOf(log[j]) = <<"H", "c">>
             /\ log[k].e = "destroyed" /\ DefOf(log[k]) = <<"H", "a">>
             /\ log[i].op = log[j].op /\ log[j].op = log[k].op

\* Event k is a registry obtaining a bound registry from the binding's
\* factory; when no name collides it goes on to call its start().
IsFactory(k) == log[k].e \in {"materialize", "conflict"}

\* Events i and j are about the same binding.
SameBinding(i, j) == log[i].by = log[j].by /\ log[i].owner = log[j].owner

\* Event k is registry s discarding the binding of `other` after its stop().
IsDiscard(k, s, other) ==
    log[k].e = "unmerge" /\ log[k].by = s /\ log[k].owner = other

\* Call op has materialised the binding of `other` in s and started it.
MaterialisedIn(op, s, other) ==
    \E k \in LogIdx :
        /\ log[k].e = "materialize" /\ log[k].op = op
        /\ log[k].by = s /\ log[k].owner = other

\* C29: the factory of a binding is invoked, and the registry it yields
\* started, a second time only after a stop() has discarded the binding;
\* once a stop() has returned every binding is discarded; and the start()
\* that follows a completed stop() materialises and starts again every
\* binding that had been materialised before.
C29_MaterialisedOncePerCycle ==
    /\ \A i \in LogIdx :
          IsFactory(i)
          => \A j \in (i + 1)..Len(log) :
                (IsFactory(j) /\ SameBinding(i, j))
                => \E u \in (i + 1)..(j - 1) :
                      IsDiscard(u, log[i].by, log[i].owner)
    /\ (Idle /\ Len(calls) > 0 /\ LastCall.op = "stop"
              /\ LastCall.status = "resolved")
          => \A s \in Srv : \A n \in 1..Len(reg[s].plugins) :
                ~reg[s].plugins[n].server
    /\ \A op \in 2..Len(calls) :
          (/\ calls[op].op = "start" /\ calls[op].status = "resolved"
           /\ calls[op - 1].op = "stop" /\ calls[op - 1].status = "resolved")
          => \A k \in LogIdx :
                (log[k].e = "materialize" /\ log[k].op < op)
                => MaterialisedIn(op, log[k].by, log[k].owner)

\* After start(), a second start() has passed over the bound registry, a
\* stop() has discarded it and the next start() has materialised it again.
C29_Witness ==
    /\ Len(calls) = 4 /\ Idle
    /\ \A q \in 1..4 : calls[q].status = "resolved"
    /\ calls[1].op = "start" /\ calls[2].op \in {"start", "only"}
    /\ calls[3].op = "stop" /\ calls[4].op = "start"
    /\ \E other \in BoundIn("H") :
          /\ MaterialisedIn(1, "H", other) /\ ~MaterialisedIn(2, "H", other)
          /\ MaterialisedIn(4, "H", other)
          /\ \E k \in LogIdx : IsDiscard(k, "H", other) /\ log[k].op = 3
          /\ \E k \in LogIdx :
                log[k].by = "H" /\ log[k].op = 2 /\ log[k].e = "already"

\* Event k is the stop function of a definition being invoked.
IsDestroy(k) == log[k].e = "destroy"

\* The first event of call q (past the log when the call logged nothing).
FirstOf(q) ==
    IF \E k \in LogIdx : log[k].op = q
    THEN CHOOSE k \in LogIdx :
            log[k].op = q /\ \A m \in 1..(k - 1) : log[m].op # q
    ELSE Len(log) + 1

\* After event n the definitions of registry o are merged into the host,
\* directly or through a registry that is itself merged into the host.
Contributed(o, n) ==
    \/ MergedAt("H", o, n)
    \/ \E s \in Srv \ {"H"} : MergedAt(s, o, n) /\ MergedAt("H", s, n)

\* The stop functions call q has invoked for definition id.
DestroysIn(q, id) ==
    {k \in LogIdx : IsDestroy(k) /\ log[k].op = q /\ DefOf(log[k]) = id}

\* C30: a stop function is invoked only by the registry that owns the
\* definition -- that of a definition contributed by a bound registry
\* inside that registry's own stop(), which the host calls when it tears
\* the binding down -- and never twice in one stop(); and a stop() of the
\* host that returns has invoked, exactly once, the stop function of every
\* definition that was running, contributed by a merged registry.
C30_PluginStopsItsOwn ==
    /\ \A k \in LogIdx :
          IsDestroy(k)
          => /\ log[k].by = log[k].owner
             /\ log[k].owner # "H"
                   => \E t \in 1..(k - 1) :
                         /\ log[t].e = "teardown" /\ log[t].op = log[k].op
                         /\ log[t].owner = log[k].owner
                         /\ ~\E u \in (t + 1)..(k - 1) :
                               IsDiscard(u, log[t].by, log[t].owner)
             /\ Cardinality(DestroysIn(log[k].op, DefOf(log[k]))) = 1
    /\ \A q \in 1..Len(calls) :
          (calls[q].op = "stop" /\ calls[q].status = "resolved")
          => \A id \in DOMAIN cont :
                (/\ id[1] # "H" /\ Stoppable(id)
                 /\ RunningAt(id, FirstOf(q))
                 /\ Contributed(id[1], FirstOf(q) - 1))
                => Cardinality(DestroysIn(q, id)) = 1

\* The program of the test has been started and stopped: the bound
\* registry has stopped its two definitions itself, between the stop
\* functions of the host's second level and those of its first.
C30_Witness ==
    /\ Idle /\ Len(calls) = 2 /\ calls[1].op = "start"
    /\ LastCall.op = "stop" /\ LastCall.status = "resolved"
    /\ \E i \in LogIdx : \E j \in LogIdx : \E h \in LogIdx : \E g \in LogIdx :
          /\ h < i /\ i < j /\ j < g
          /\ IsOwnDestroy(h, "H", 2) /\ IsOwnDestroy(g, "H", 2)
          /\ IsDestroy(i) /\ IsDestroy(j)
          /\ log[i].by = "P" /\ log[j].by = "P"
          /\ log[i].op = 2 /\ log[j].op = 2
          /\ log[i].key = "r" /\ log[j].key = "p"
    /\ \A id \in DOMAIN cont : ~cont[id].up

\* Call q is a stop() that has ended; QuietStop: it has invoked no stop
\* function and has not thrown.
IsStop(q) == calls[q].op = "stop" /\ calls[q].status # "running"

QuietStop(q) ==
    /\ calls[q].status = "resolved"
    /\ ~\E k \in LogIdx : IsDestroy(k) /\ log[k].op = q

\* Every stop function that was invoked belongs to a definition that has one
\* and was running.
StopInvokesOnlyRunning ==
    \A k \in LogIdx :
        IsDestroy(k)
        => /\ cont[DefOf(log[k])].destroy # "none"
           /\ RunningAt(DefOf(log[k]), k)

\* C31: stop() invokes no stop function for a definition that has none or
\* is not running; a stop() on a registry that was never started, and a
\* stop() that follows a stop() with no start in between, invoke no stop
\* function and do not throw.
C31_StopSkipsSilently ==
    /\ StopInvokesOnlyRunning
    /\ \A q \in 1..Len(calls) :
          (IsStop(q) /\ \A p \in 1..(q - 1) : calls[p].op = "stop")
          => QuietStop(q)
    /\ \A q \in 2..Len(calls) :
          (IsStop(q) /\ calls[q - 1].op = "stop") => QuietStop(q)

\* What holds of a second stop(): it is quiet when no call before it was
\* rejected (a rejected start() may have left start functions pending, a
\* rejected stop() definitions running).
SecondStopQuiet ==
    /\ StopInvokesOnlyRunning
    /\ \A q \in 1..Len(calls) :
          (IsStop(q) /\ \A p \in 1..(q - 1) : calls[p].op = "stop")
          => QuietStop(q)
    /\ \A q \in 2..Len(calls) :
          (/\ IsStop(q) /\ calls[q - 1].op = "stop"
           /\ calls[q - 1].status = "resolved"
           /\ \A p \in 1..(q - 1) : calls[p].status = "resolved")
          => QuietStop(q)

\* Event k is a stop function failing: it threw, or its promise rejected.
IsDestroyFail(k) == log[k].e = "destroyfail"

\* Definition id is a sibling of the definition of event k: another
\* definition of the same registry and level.
SiblingOf(id, k) ==
    /\ id # DefOf(log[k]) /\ id[1] = log[k].owner
    /\ cont[id].level = LevelOf(log[k])

\* C32: when a stop function fails, stop() rejects; what it invokes
\* afterwards are only stop functions of the failing definition's siblings,
\* in parallel stop mode, so that no definition of a lower level is
\* stopped; the failing definition is still running unless a later call
\* invoked its stop function again; and in parallel stop mode the rejected
\* stop() has invoked the stop function of every running sibling.
C32_FailedStopRejects ==
    \A k \in LogIdx :
        IsDestroyFail(k)
        => /\ calls[log[k].op].status # "resolved"
           /\ Idle => calls[log[k].op].status = "rejected"
           /\ \A j \in (k + 1)..Len(log) :
                 (log[j].op = log[k].op /\ log[j].e \in {"destroy", "destroyed"})
                 => /\ SiblingOf(DefOf(log[j]), k)
                    /\ log[j].by = log[k].by
                    /\ log[j].e = "destroy" => ParallelStop(log[k].by)
           /\ \A j \in (k + 1)..Len(log) :
                 log[j].op = log[k].op
                 => log[j].e \notin {"teardown", "unmerge", "return"}
           /\ (~\E j \in (k + 1)..Len(log) :
                   IsDestroy(j) /\ DefOf(log[j]) = DefOf(log[k]))
                 => /\ cont[DefOf(log[k])].up
                    /\ cont[DefOf(log[k])].value # Undef
           /\ (ParallelStop(log[k].by) /\ calls[log[k].op].status = "rejected")
                 => \A id \in DOMAIN cont :
                       (/\ SiblingOf(id, k) /\ Stoppable(id)
                        /\ RunningAt(id, FirstOf(log[k].op)))
                       => DestroysIn(log[k].op, id) # {}

\* The last call is a launch() whose start() failed and whose cleanup
\* shutdown has completed: launch() has returned and the process runs on.
CleanedUp ==
    /\ Idle /\ Alive /\ Len(calls) > 0
    /\ LastCall.op = "launch" /\ LastCall.status = "resolved"
    /\ \E k \in LogIdx : IsFailedStart(k) /\ log[k].op = Len(calls)

\* C33: once launch() has handled a start failure and its cleanup shutdown
\* has completed, no definition is running, at that moment and at any later
\* one until the next call -- also when a sibling of the failed definition
\* was still starting while the cleanup stop ran.
C33_NothingRunsAfterCleanup ==
    CleanedUp => \A id \in DOMAIN cont : ~cont[id].up /\ cont[id].value = Undef

\* What holds after the cleanup: a definition that is running finished
\* starting after the failure had been handled, its start function having
\* been invoked before.
OnlyLateStartsRun ==
    CleanedUp
    => \A id \in DOMAIN cont :
          (cont[id].up \/ cont[id].value # Undef)
          => \E f \in LogIdx : \E k \in LogIdx : \E i \in LogIdx :
                /\ IsFailedStart(f) /\ log[f].op = Len(calls)
                /\ i < f /\ f < k
                /\ IsInit(i) /\ DefOf(log[i]) = id
                /\ log[k].e = "ready" /\ DefOf(log[k]) = id

\* C34: the stop function of a definition is invoked at most once per start
\* cycle: between two invocations of it the start function of the
\* definition has been invoked again -- also when shutdown() is called, by
\* a signal handler or by the user, while a stop() is in progress.
C34_StoppedOncePerCycle ==
    \A i \in LogIdx : \A j \in LogIdx :
        (i < j /\ IsDestroy(i) /\ IsDestroy(j) /\ SameDef(log[i], log[j]))
        => \E k \in (i + 1)..(j - 1) : IsInit(k) /\ SameDef(log[k], log[i])

\* What holds: a stop function is invoked a second time in one start cycle
\* only by a shutdown() that was called while the first invocation had not
\* completed.
StoppedTwiceOnlyWhilePending ==
    \A i \in LogIdx : \A j \in LogIdx :
        (i < j /\ IsDestroy(i) /\ IsDestroy(j) /\ SameDef(log[i], log[j]))
        => \/ \E k \in (i + 1)..(j - 1) : IsInit(k) /\ SameDef(log[k], log[i])
           \/ /\ log[i].op < log[j].op
              /\ ~\E k \in (i + 1)..(j - 1) :
                    /\ log[k].e \in {"destroyed", "destroyfail"}
                    /\ SameDef(log[k], log[i])

\* C35: every definition registered through the host's up() is registered
\* in the host's map under its own name, whatever has been started,
\* stopped, merged and unmerged -- also after a start() that failed with a
\* name collision and the stop() that follows it.
C35_HostKeepsOwnDefinitions ==
    \A id \in DOMAIN cont :
        id[1] = "H"
        => /\ MapHas(reg["H"].map, id[2])
           /\ MapGet(reg["H"].map, id[2]).owner = "H"

\* A full start() of the host has just completed successfully.
StartReturned ==
    /\ Idle /\ Len(calls) > 0
    /\ LastCall.op = "start" /\ LastCall.status = "resolved"

\* The binding n of registry s is materialised, the registry it yields is
\* started (its definitions are running) and its names are merged into s.
BindingStarted(s, n) ==
    LET other == reg[s].plugins[n].other
    IN /\ reg[s].plugins[n].server
       /\ \A id \in DOMAIN cont : id[1] = other => cont[id].up
       /\ MapKeys(reg[other].map) \subseteq MapKeys(reg[s].map)

\* Registry s holds a definition of the level the binding is anchored at.
AnchorHasDefinition(s, n) ==
    \/ reg[s].plugins[n].after = -1
    \/ \E id \in DOMAIN cont :
          /\ id[1] = s /\ cont[id].level = reg[s].plugins[n].after
          /\ MapHas(reg[s].map, id[2])

\* C36: when a full start() has completed successfully, every registry
\* bound with use() -- in the host or in a registry bound in it -- has been
\* materialised, started and merged, wherever it is anchored.
C36_EveryPluginStarted ==
    StartReturned
    => \A s \in Srv : \A n \in 1..Len(reg[s].plugins) : BindingStarted(s, n)

\* What holds: the bindings anchored before the first level or at a level
\* of which the registry still holds a definition are materialised, started
\* and merged, in a run in which no call was rejected.
AnchoredPluginsStarted ==
    (StartReturned /\ \A q \in 1..Len(calls) : calls[q].status = "resolved")
    => \A s \in Srv : \A n \in 1..Len(reg[s].plugins) :
          AnchorHasDefinition(s, n) => BindingStarted(s, n)

\* The builder call recorded as call i of the host.
CallOf(i) ==
    CASE calls[i].op = "up" -> CallUp(calls[i].args, calls[i].group)
      [] calls[i].op = "down" -> CallDown(calls[i].args)
      [] OTHER -> CallUse("P", TRUE)

\* The registries as the recorded calls from the i-th on build them from w
\* when the up() calls that threw are left out.
RECURSIVE WithoutRejectedUps(_, _)
WithoutRejectedUps(w, i) ==
    IF i > Len(calls) THEN w
    ELSE IF calls[i].op = "up" /\ calls[i].status = "rejected"
    THEN WithoutRejectedUps(w, i + 1)
    ELSE WithoutRejectedUps(ApplyCall(w, "H", CallOf(i)).w, i + 1)

\* The registries before the host's first call: the host is fresh.
FreshHost ==
    [reg |-> [reg EXCEPT !["H"] = NewServer],
     cont |-> [id \in {x \in DOMAIN cont : x[1] # "H"} |-> cont[id]]]

\* C37: an up() call that throws leaves the registry as it was -- no
\* definition installed or removed, the group set and the level counter
\* unchanged: the host is what its other calls alone have built.
C37_RejectedUpChangesNothing ==
    W = WithoutRejectedUps(FreshHost, 1)

\* Event k is startPlugins finding a name of the registry it has
\* materialised in the map of the registry that binds it.
IsConflict(k) == log[k].e = "conflict"

\* C38: a binding whose merge was aborted by a name collision is not left
\* materialised once the call has ended, and every later start() that has
\* ended reported the collision again, unless a start function failed in it
\* before.
C38_CollisionReportedAgain ==
    \A k \in LogIdx :
        IsConflict(k)
        => /\ calls[log[k].op].status # "running"
                 => \/ ~reg[log[k].by].plugins[BindIndex(log[k].by,
                                                         log[k].owner)].server
                    \/ \E m \in (k + 1)..Len(log) :
                          log[m].e = "materialize" /\ log[m].by = log[k].by
                          /\ log[m].owner = log[k].owner
           /\ \A q \in (log[k].op + 1)..Len(calls) :
                 (calls[q].op = "start" /\ calls[q].status # "running")
                 => \/ \E m \in LogIdx : IsConflict(m) /\ log[m].op = q
                    \/ \E m \in LogIdx : IsInitFail(m) /\ log[m].op = q

\* C39: for every reference to an overridden plug that has been handed out,
\* isReady is true exactly while the overriding definition is running, and
\* it is false once a stop() has completed.
C39_ReadyIffOverrideRunning ==
    /\ \A ref \in held : PlugIsReady(W, ref.plug) <=> OverrideOf(ref).up
    /\ (/\ Idle /\ Len(calls) > 0 /\ LastCall.op = "stop"
        /\ LastCall.status = "resolved")
          => \A ref \in held : ~PlugIsReady(W, ref.plug)

\* What holds for every override: isReady is true exactly while the
\* override holds an instance.
ReadyIffInstance ==
    \A ref \in held :
        PlugIsReady(W, ref.plug) <=> OverrideOf(ref).value # Undef

\* The last call is a start() that has not settled.
StartRunning ==
    /\ Len(calls) > 0 /\ LastCall.op = "start"
    /\ LastCall.status = "running"

\* Every start() settles, when every start function invoked settles.
StartSettles == StartRunning ~> ~StartRunning

\* C40: start() settles; when it has resolved, every definition of the
\* host and of every registry bound in it, directly or in a bound registry,
\* is running.
C40_StartResolvesAllRunning ==
    StartReturned
    => \A id \in DOMAIN cont :
          (id[1] = "H" \/ \E s \in Srv : id[1] \in BoundIn(s)) => cont[id].up

====
